---- MODULE Spec2Model ----
(***************************************************************************)
(* Job orchestration and phased-scan state machine of cybersorted-mcp:     *)
(* the job record (src/jobs/models.py), the Job Store (src/jobs/manager.py)*)
(* the Dispatcher (src/jobs/dispatcher.py), the worker (workers/zap/       *)
(* agent.py), the Bridge (src/jobs/bridge.py), the polling orchestrator    *)
(* (src/tools/scanning/web_application.py) and the REST handlers           *)
(* (src/api/router.py).                                                    *)
(*                                                                         *)
(* A Firestore document and every dict passed to .update() is a function   *)
(* from field names to values; .update(data) is the merge  data @@ doc.    *)
(* Python's None is the string NONE; a missing results / scan_stats        *)
(* record is the empty set, a present one a singleton.  updated_at         *)
(* (SERVER_TIMESTAMP on every write) carries no logic and is left out.     *)
(***************************************************************************)
EXTENDS Integers, Sequences, FiniteSets, TLC

\* ------------------------------------------------------------------ bounds

\* Largest number of findings of each severity the engine is given.
MaxHigh == 11
MaxMedium == 2
MaxLow == 5
MaxInfo == 5
\* Number of scan requests issued in the dispatcher specification.
MaxLaunches == 4
\* The polling deadline, scaled down from 3600 (web_application.py:22): the
\* loop depends on it only through the number of iterations it allows.
MAX_POLL_DURATION_SECONDS == 10
\* Longest list of findings drawn for the classification of findings.
MaxFindings == 3

\* ------------------------------------------------------- program constants

POLL_INTERVAL_SECONDS == 5
MAX_CONCURRENT_SCANS == 3
\* wait_for_zap(client, max_attempts=30); main() passes no other value.
max_attempts == 30

NONE == "None"

QUEUED == "queued"
DISPATCHED == "dispatched"
RUNNING == "running"
COMPLETED == "completed"
FAILED == "failed"
CANCELLED == "cancelled"

JobStatus == {QUEUED, DISPATCHED, RUNNING, COMPLETED, FAILED, CANCELLED}
TerminalStatus == {COMPLETED, FAILED, CANCELLED}

\* Python truthiness of an optional string: None and "" are falsy.
Truthy(s) == s # NONE /\ s # ""

\* A dict with no keys.
EmptyDict == [k \in {} |-> NONE]

\* dict literal entry that is only present under a condition
When(c, d) == IF c THEN d ELSE EmptyDict

\* Firestore DocumentReference.update(data): top-level fields of data replace
\* those of the document, every other field is kept.
Update(doc, data) == data @@ doc

\* JobProgress(phase, spider_progress, active_scan_progress, message)
JobProgress(phase, sp, ap, msg) ==
    [phase |-> phase, spider_progress |-> sp, active_scan_progress |-> ap,
     message |-> msg]

\* JobProgress() with its field defaults
DefaultProgress == JobProgress("queued", 0, 0, << >>)

\* ------------------------------------------------------------------ state

VARIABLES
    store,          \* pentest-jobs collection: job id -> document
    containers,     \* docker daemon: container id -> [job_id, role, status]
    level,          \* SCAN_LEVEL handed to the worker of job 1
    raw_alerts,     \* what the engine's core/view/alerts will return
    w_pc,           \* worker of job 1: position in main()
    w_probes,       \* worker: liveness probes wait_for_zap has made so far
    w_last,         \* worker: last_progress of wait_for_passive_scan
    w_exit,         \* worker: process exit code, -1 while none
    ext,            \* security-scans document of the APP
    last_sync,      \* observation of the latest sync_to_security_scan call
    d_pc,           \* launch_worker call of each orchestrator instance
    d_running,      \* launch_worker: the count it read
    d_job,          \* launch_worker: its job_id argument
    launch_result,  \* launch_worker: how the latest call ended
    launched,       \* number of launch_worker calls made so far
    o_pc,           \* scan request handler of job 1: position
    o_flow,         \* "mcp" (scan_web_application) or "app" (start_scan)
    o_exc,          \* handler: message of the DispatchError it caught
    elapsed,        \* scan_web_application: elapsed
    o_ret,          \* handler: the value returned to the caller
    c_pc,           \* cancel_scan: position
    c_cid,          \* cancel_scan: container_id of the job it read
    c_ret,          \* cancel_scan: its response
    stop_ret,       \* stop_worker: how the latest call ended
    s_ret           \* get_scan_status: its latest response

storeVars  == <<store>>
workerVars == <<level, raw_alerts, w_pc, w_probes, w_last, w_exit>>
bridgeVars == <<ext, last_sync>>
dispVars   == <<d_pc, d_running, d_job, launch_result, launched>>
orchVars   == <<o_pc, o_flow, o_exc, elapsed, o_ret>>
cancelVars == <<c_pc, c_cid, c_ret, stop_ret>>
vars == <<store, containers, level, raw_alerts, w_pc, w_probes, w_last, w_exit, ext,
          last_sync, d_pc, d_running, d_job, launch_result, launched, o_pc,
          o_flow, o_exc, elapsed, o_ret, c_pc, c_cid, c_ret, stop_ret, s_ret>>

\* The job whose handlers and worker are followed step by step.
JOB == 1

\* -------------------------------------------------------------- Job Store

\* PentestJob(...).to_firestore() as create_job writes it: status QUEUED,
\* default progress, no results, no alerts.  Firestore drops the None fields;
\* reading them back through PentestJob gives None again, so they are kept
\* here with the value they read as.
NewJobDoc(job_id, source, scan_level, company_id, scan_id) ==
    [job_id |-> job_id, source |-> source, status |-> QUEUED,
     config |-> [target_url |-> "https://example.com", scan_level |-> scan_level],
     company_id |-> company_id, scan_id |-> scan_id,
     progress |-> DefaultProgress,
     results |-> {}, alerts |-> << >>, scan_stats |-> {},
     error_message |-> NONE, container_id |-> 0,
     started_at |-> FALSE, completed_at |-> FALSE]

\* The dict update_status builds.
update_status_data(status, container_id, error_message) ==
    ("status" :> status)
    @@ When(status = DISPATCHED /\ container_id # 0, "container_id" :> container_id)
    @@ When(status = RUNNING, "started_at" :> TRUE)
    @@ When(status \in {COMPLETED, FAILED}, "completed_at" :> TRUE)
    @@ When(Truthy(error_message), "error_message" :> error_message)

update_status(st, job_id, status, container_id, error_message) ==
    [st EXCEPT ![job_id] =
        Update(@, update_status_data(status, container_id, error_message))]

\* fail_job that loses its message.
fail_job_NoMessage(st, job_id, error_message) ==
    update_status(st, job_id, FAILED, 0, NONE)

fail_job(st, job_id, error_message) ==
    update_status(st, job_id, FAILED, 0, error_message)

\* update_progress that writes the three scalar fields into the stored
\* progress and leaves its message.
update_progress_KeepMessage(st, job_id, progress) ==
    [st EXCEPT ![job_id] = Update(@, "progress" :>
        [@.progress EXCEPT !.phase = progress.phase,
                           !.spider_progress = progress.spider_progress,
                           !.active_scan_progress = progress.active_scan_progress])]

update_progress(st, job_id, progress) ==
    [st EXCEPT ![job_id] = Update(@, "progress" :> progress)]

complete_job(st, job_id, results, alerts, scan_stats) ==
    [st EXCEPT ![job_id] = Update(@,
        ("status" :> COMPLETED)
        @@ ("results" :> {results})
        @@ ("alerts" :> alerts)
        @@ ("progress" :> JobProgress("completed", 100, 100, <<"Scan complete">>))
        @@ ("completed_at" :> TRUE)
        @@ When(scan_stats # {}, "scan_stats" :> scan_stats))]

\* get_job: the document, or the empty set for None
get_job(st, job_id) == IF job_id \in DOMAIN st THEN {st[job_id]} ELSE {}

\* Field(ge=0, le=100) on the two percentages of JobProgress.
ProgressValid(p) ==
    /\ p.spider_progress \in 0..100
    /\ p.active_scan_progress \in 0..100

\* _doc_to_job rebuilds JobProgress(**data["progress"]): get_job raises a
\* ValidationError for a stored document whose percentages are out of range.
get_job_raises(st, job_id) ==
    job_id \in DOMAIN st /\ ~ProgressValid(st[job_id].progress)

\* ----------------------------------------------------------------- worker

\* What no step of the worker touches.
notWorker == <<ext, last_sync, d_pc, d_running, d_job, launch_result, launched,
               o_pc, o_flow, o_exc, elapsed, o_ret, c_pc, c_cid, c_ret, stop_ret,
               s_ret>>

\* Readings the engine gives for spider/view/status and ascan/view/status.
PercentReadings == {0, 50, 100}
\* Readings the engine gives for pscan/view/recordsToScan: nothing left, a
\* few records, and backlogs below and above 100 records.
RemainingReadings == {0, 3, 40, 140}
\* str(exc) of an engine call that raised (httpx error).
EngineError == "engine call failed"
ZapTimeout == "ZAP failed to start within timeout"

\* str.lower() on the risk and scan-level spellings drawn here.
Lower(s) ==
    CASE s \in {"High", "HIGH", "high"} -> "high"
      [] s \in {"LIGHT", "Light"} -> "light"
      [] s \in {"DEEP", "Deep"} -> "deep"
      [] s \in {"Medium", "medium"} -> "medium"
      [] s \in {"Low", "low"} -> "low"
      [] s = "Informational" -> "informational"
      [] s = "Critical" -> "critical"
      [] OTHER -> s

\* dict.get(key, default)
Get(d, k, default) == IF k \in DOMAIN d THEN d[k] ELSE default

\* The risk compared as the engine spelled it.
RiskOf_CaseSensitive(alert) ==
    LET r == Get(alert, "risk", NONE)
    IN  IF Truthy(r) THEN r ELSE "informational"

\* (alert.get("risk") or "Informational").lower()
RiskOf(alert) ==
    LET r == Get(alert, "risk", NONE)
    IN  Lower(IF Truthy(r) THEN r ELSE "Informational")

\* The counting loop of get_results: one pass over raw alerts.
RECURSIVE CountSeverity(_)
CountSeverity(alerts) ==
    IF alerts = << >>
    THEN [high |-> 0, medium |-> 0, low |-> 0, informational |-> 0]
    ELSE LET c == CountSeverity(Tail(alerts))
             risk == RiskOf(Head(alerts))
         IN  IF risk = "high" THEN [c EXCEPT !.high = @ + 1]
             ELSE IF risk = "medium" THEN [c EXCEPT !.medium = @ + 1]
             ELSE IF risk = "low" THEN [c EXCEPT !.low = @ + 1]
             ELSE [c EXCEPT !.informational = @ + 1]

\* The alert dict get_results appends for one raw alert.
AlertOf(alert) ==
    [name |-> Get(alert, "alert", Get(alert, "name", "")),
     severity |-> Get(alert, "risk", "Informational"),
     confidence |-> Get(alert, "confidence", ""),
     url |-> Get(alert, "url", ""),
     description |-> Get(alert, "description", ""),
     solution |-> Get(alert, "solution", ""),
     reference |-> Get(alert, "reference", ""),
     cweid |-> Get(alert, "cweid", ""),
     wascid |-> Get(alert, "wascid", "")]

\* Python round() of the float x2/2 (a multiple of 0.5): to the nearest
\* integer, a tie going to the even neighbour.
PyRoundHalves(x2) ==
    LET f == x2 \div 2
    IN  IF x2 % 2 = 0 THEN f
        ELSE IF f % 2 = 0 THEN f ELSE f + 1

Max(a, b) == IF a >= b THEN a ELSE b
Min(a, b) == IF a <= b THEN a ELSE b

\* raw_score = 100 - (high*10 + medium*5 + low*2 + informational*0.5)
\* score = max(0, round(raw_score));  raw_score is held doubled.
Score(high, medium, low, informational) ==
    LET raw_score2 == 200 - (high * 20 + medium * 10 + low * 4 + informational)
    IN  Max(0, PyRoundHalves(raw_score2))

\* get_results: (results, alerts) for what the engine returned.
get_results(raw) ==
    LET c == CountSeverity(raw)
    IN  [results |-> [high |-> c.high, medium |-> c.medium, low |-> c.low,
                      informational |-> c.informational,
                      score |-> Score(c.high, c.medium, c.low, c.informational)],
         alerts |-> [i \in 1..Len(raw) |-> AlertOf(raw[i])]]

\* update_job: the merge, or nothing when the write raised (the exception is
\* logged and swallowed).
update_job(st, data, ok) ==
    IF ok /\ JOB \in DOMAIN st THEN [st EXCEPT ![JOB] = Update(@, data)] ELSE st

WorkerAlive ==
    /\ JOB \in DOMAIN containers
    /\ containers[JOB].status = "running"

\* The process ends: its container leaves the running state.
ContainerExited(cs, c) == [cs EXCEPT ![c].status = "exited"]

\* The except branch with the error's message left out of the write.
WorkerFail_NoMessage(st, msg, ok) ==
    /\ store' = update_job(st,
            ("status" :> FAILED) @@ ("completed_at" :> TRUE)
            @@ ("progress" :> JobProgress("failed", 0, 0, <<"Failed: ", msg>>)),
            ok)
    /\ w_pc' = "exited"
    /\ w_exit' = 1
    /\ containers' = ContainerExited(containers, JOB)

\* The except branch of main(): write FAILED with str(exc), exit 1.
WorkerFail(st, msg, ok) ==
    /\ store' = update_job(st,
            ("status" :> FAILED) @@ ("error_message" :> msg)
            @@ ("completed_at" :> TRUE)
            @@ ("progress" :> JobProgress("failed", 0, 0, <<"Failed: ", msg>>)),
            ok)
    /\ w_pc' = "exited"
    /\ w_exit' = 1
    /\ containers' = ContainerExited(containers, JOB)

\* main(): "Mark as running".
WorkerStart ==
    /\ WorkerAlive /\ w_pc = "main"
    /\ \E ok \in BOOLEAN :
        store' = update_job(store,
            ("status" :> RUNNING) @@ ("started_at" :> TRUE)
            @@ ("progress" :> JobProgress("starting", 0, 0, <<"Initialising scanner...">>)),
            ok)
    /\ w_pc' = "wait_for_zap"
    /\ UNCHANGED <<containers, level, raw_alerts, w_probes, w_last, w_exit>>
    /\ UNCHANGED notWorker

\* wait_for_zap with one probe more than its budget.
WorkerWaitForZap_OneMore ==
    /\ WorkerAlive /\ w_pc = "wait_for_zap"
    /\ \E ready \in BOOLEAN, ok \in BOOLEAN :
        IF ready
        THEN /\ w_pc' = "run_spider"
             /\ w_probes' = 0
             /\ UNCHANGED <<store, containers, w_exit>>
        ELSE IF w_probes + 1 < max_attempts + 1
        THEN /\ w_probes' = w_probes + 1
             /\ UNCHANGED <<store, containers, w_pc, w_exit>>
        ELSE /\ WorkerFail(store, ZapTimeout, ok)
             /\ w_probes' = 0
    /\ UNCHANGED <<level, raw_alerts, w_last>>
    /\ UNCHANGED notWorker

\* One probe of wait_for_zap's loop.  A probe that answers ends the wait:
\* configure_policy and the context set-up follow (both swallow their
\* errors and write nothing).  A probe that fails is followed by the next
\* one, or, when it was the last of max_attempts, by the RuntimeError that
\* main() handles.
WorkerWaitForZap ==
    /\ WorkerAlive /\ w_pc = "wait_for_zap"
    /\ \E ready \in BOOLEAN, ok \in BOOLEAN :
        IF ready
        THEN /\ w_pc' = "run_spider"
             /\ w_probes' = 0
             /\ UNCHANGED <<store, containers, w_exit>>
        ELSE IF w_probes + 1 < max_attempts
        THEN /\ w_probes' = w_probes + 1
             /\ UNCHANGED <<store, containers, w_pc, w_exit>>
        ELSE /\ WorkerFail(store, ZapTimeout, ok)
             /\ w_probes' = 0
    /\ UNCHANGED <<level, raw_alerts, w_last>>
    /\ UNCHANGED notWorker

\* run_spider up to its polling loop: the crawling write, then the start call.
WorkerRunSpider ==
    /\ WorkerAlive /\ w_pc = "run_spider"
    /\ \E ok \in BOOLEAN, started \in BOOLEAN, ok2 \in BOOLEAN :
        LET st1 == update_job(store,
                      ("status" :> RUNNING)
                      @@ ("progress" :> JobProgress("crawling", 0, 0, <<"Discovering pages...">>)),
                      ok)
        IN  IF started
            THEN /\ store' = st1
                 /\ w_pc' = "spider_poll"
                 /\ UNCHANGED <<containers, w_exit>>
            ELSE WorkerFail(st1, EngineError, ok2)
    /\ UNCHANGED <<level, raw_alerts, w_probes, w_last>>
    /\ UNCHANGED notWorker

\* run_spider's loop left at half of the crawl.
WorkerSpiderPoll_Half ==
    /\ WorkerAlive /\ w_pc = "spider_poll"
    /\ \/ \E progress \in PercentReadings, ok \in BOOLEAN :
            /\ store' = update_job(store,
                  "progress" :> JobProgress("crawling", progress, 0,
                                            <<"Discovering pages... ", progress, "%">>),
                  ok)
            /\ w_pc' = IF progress < 50 THEN "spider_poll" ELSE "scan"
            /\ UNCHANGED <<containers, w_exit>>
       \/ \E ok \in BOOLEAN : WorkerFail(store, EngineError, ok)
    /\ UNCHANGED <<level, raw_alerts, w_probes, w_last>>
    /\ UNCHANGED notWorker

\* One iteration of run_spider's loop: read the percentage, write it.
WorkerSpiderPoll ==
    /\ WorkerAlive /\ w_pc = "spider_poll"
    /\ \/ \E progress \in PercentReadings, ok \in BOOLEAN :
            /\ store' = update_job(store,
                  "progress" :> JobProgress("crawling", progress, 0,
                                            <<"Discovering pages... ", progress, "%">>),
                  ok)
            /\ w_pc' = IF progress < 100 THEN "spider_poll" ELSE "scan"
            /\ UNCHANGED <<containers, w_exit>>
       \/ \E ok \in BOOLEAN : WorkerFail(store, EngineError, ok)
    /\ UNCHANGED <<level, raw_alerts, w_probes, w_last>>
    /\ UNCHANGED notWorker

\* main() with the two variants the wrong way round.
WorkerScanStart_Swapped ==
    /\ WorkerAlive /\ w_pc = "scan"
    /\ IF level # "light"
       THEN \E ok \in BOOLEAN :
            /\ store' = update_job(store,
                  "progress" :> JobProgress("scanning", 100, 0, <<"Passive analysis...">>),
                  ok)
            /\ w_pc' = "passive_poll"
            /\ w_last' = 0
            /\ UNCHANGED <<containers, w_exit>>
       ELSE \E ok \in BOOLEAN, started \in BOOLEAN, ok2 \in BOOLEAN :
            LET st1 == update_job(store,
                          "progress" :> JobProgress("scanning", 100, 0,
                                                    <<"Active vulnerability scanning...">>),
                          ok)
            IN  /\ IF started
                   THEN /\ store' = st1
                        /\ w_pc' = "active_poll"
                        /\ UNCHANGED <<containers, w_exit>>
                   ELSE WorkerFail(st1, EngineError, ok2)
                /\ UNCHANGED w_last
    /\ UNCHANGED <<level, raw_alerts, w_probes>>
    /\ UNCHANGED notWorker

\* main() picks the variant; the first write of wait_for_passive_scan, or the
\* first write of run_active_scan and its start call.
WorkerScanStart ==
    /\ WorkerAlive /\ w_pc = "scan"
    /\ IF level = "light"
       THEN \E ok \in BOOLEAN :
            /\ store' = update_job(store,
                  "progress" :> JobProgress("scanning", 100, 0, <<"Passive analysis...">>),
                  ok)
            /\ w_pc' = "passive_poll"
            /\ w_last' = 0
            /\ UNCHANGED <<containers, w_exit>>
       ELSE \E ok \in BOOLEAN, started \in BOOLEAN, ok2 \in BOOLEAN :
            LET st1 == update_job(store,
                          "progress" :> JobProgress("scanning", 100, 0,
                                                    <<"Active vulnerability scanning...">>),
                          ok)
            IN  /\ IF started
                   THEN /\ store' = st1
                        /\ w_pc' = "active_poll"
                        /\ UNCHANGED <<containers, w_exit>>
                   ELSE WorkerFail(st1, EngineError, ok2)
                /\ UNCHANGED w_last
    /\ UNCHANGED <<level, raw_alerts, w_probes>>
    /\ UNCHANGED notWorker

\* The passive loop with the backlog scaled to tens before it is subtracted.
WorkerPassivePoll_Scaled ==
    /\ WorkerAlive /\ w_pc = "passive_poll"
    /\ \/ \E remaining \in RemainingReadings, ok \in BOOLEAN :
            LET progress == Min(100, 100 - (remaining \div 10))
            IN  IF remaining = 0
                THEN /\ w_pc' = "passive_done"
                     /\ UNCHANGED <<store, w_last>>
                ELSE IF progress # w_last
                THEN /\ store' = update_job(store,
                          "progress" :> JobProgress("scanning", 100, progress,
                               <<"Passive analysis... ", remaining, " records remaining">>),
                          ok)
                     /\ w_last' = progress
                     /\ UNCHANGED w_pc
                ELSE UNCHANGED <<store, w_last, w_pc>>
       \/ /\ w_pc' = "passive_assumed"
          /\ UNCHANGED <<store, w_last>>
    /\ UNCHANGED <<containers, level, raw_alerts, w_probes, w_exit>>
    /\ UNCHANGED notWorker

\* The passive loop with an engine error left to main()'s handler.
WorkerPassivePoll_Fatal ==
    /\ WorkerAlive /\ w_pc = "passive_poll"
    /\ \/ \E remaining \in RemainingReadings, ok \in BOOLEAN :
            LET progress == Min(95, 100 - remaining)
            IN  IF remaining = 0
                THEN /\ w_pc' = "passive_done"
                     /\ UNCHANGED <<store, containers, w_last, w_exit>>
                ELSE IF progress # w_last
                THEN /\ store' = update_job(store,
                          "progress" :> JobProgress("scanning", 100, progress,
                               <<"Passive analysis... ", remaining, " records remaining">>),
                          ok)
                     /\ w_last' = progress
                     /\ UNCHANGED <<containers, w_pc, w_exit>>
                ELSE UNCHANGED <<store, containers, w_last, w_pc, w_exit>>
       \/ \E ok \in BOOLEAN :
            /\ WorkerFail(store, EngineError, ok)
            /\ UNCHANGED w_last
    /\ UNCHANGED <<level, raw_alerts, w_probes>>
    /\ UNCHANGED notWorker

\* One iteration of wait_for_passive_scan's loop.
WorkerPassivePoll ==
    /\ WorkerAlive /\ w_pc = "passive_poll"
    /\ \/ \E remaining \in RemainingReadings, ok \in BOOLEAN :
            LET progress == Min(95, 100 - remaining)
            IN  IF remaining = 0
                THEN /\ w_pc' = "passive_done"
                     /\ UNCHANGED <<store, w_last>>
                ELSE IF progress # w_last
                THEN /\ store' = update_job(store,
                          "progress" :> JobProgress("scanning", 100, progress,
                               <<"Passive analysis... ", remaining, " records remaining">>),
                          ok)
                     /\ w_last' = progress
                     /\ UNCHANGED w_pc
                ELSE UNCHANGED <<store, w_last, w_pc>>
       \/ \* the engine call raised: "assuming complete"
          /\ w_pc' = "passive_assumed"
          /\ UNCHANGED <<store, w_last>>
    /\ UNCHANGED <<containers, level, raw_alerts, w_probes, w_exit>>
    /\ UNCHANGED notWorker

\* The write after the passive loop going back to the crawling phase.
WorkerPassiveDone_Crawling ==
    /\ WorkerAlive /\ w_pc \in {"passive_done", "passive_assumed"}
    /\ \E ok \in BOOLEAN :
        store' = update_job(store,
            "progress" :> JobProgress("crawling", 100, 100, <<"Passive analysis complete">>),
            ok)
    /\ w_pc' = "get_results"
    /\ UNCHANGED <<containers, level, raw_alerts, w_probes, w_last, w_exit>>
    /\ UNCHANGED notWorker

\* The write that follows the passive loop, whichever break left it: the
\* one after a read of 0 ("passive_done") or the one of the except branch
\* ("passive_assumed").
WorkerPassiveDone ==
    /\ WorkerAlive /\ w_pc \in {"passive_done", "passive_assumed"}
    /\ \E ok \in BOOLEAN :
        store' = update_job(store,
            "progress" :> JobProgress("scanning", 100, 100, <<"Passive analysis complete">>),
            ok)
    /\ w_pc' = "get_results"
    /\ UNCHANGED <<containers, level, raw_alerts, w_probes, w_last, w_exit>>
    /\ UNCHANGED notWorker

\* One iteration of run_active_scan's loop.
WorkerActivePoll ==
    /\ WorkerAlive /\ w_pc = "active_poll"
    /\ \/ \E progress \in PercentReadings, ok \in BOOLEAN :
            /\ store' = update_job(store,
                  "progress" :> JobProgress("scanning", 100, progress,
                                            <<"Active scanning... ", progress, "%">>),
                  ok)
            /\ w_pc' = IF progress < 100 THEN "active_poll" ELSE "get_results"
            /\ UNCHANGED <<containers, w_exit>>
       \/ \E ok \in BOOLEAN : WorkerFail(store, EngineError, ok)
    /\ UNCHANGED <<level, raw_alerts, w_probes, w_last>>
    /\ UNCHANGED notWorker

\* scan_stats as main() assembles it: each call that fails leaves its zero.
StatsChoices ==
    {[urls_crawled |-> u, requests_sent |-> r, duration_seconds |-> 1] :
        u \in {0, 3}, r \in {0, 7}}

\* The final write split: COMPLETED goes out without the results.
WorkerFinish_NoResults ==
    /\ WorkerAlive /\ w_pc = "get_results"
    /\ \E ok \in BOOLEAN :
        store' = update_job(store,
            ("status" :> COMPLETED) @@ ("completed_at" :> TRUE)
            @@ ("progress" :> JobProgress("completed", 100, 100, <<"Scan complete">>)),
            ok)
    /\ w_pc' = "exited"
    /\ w_exit' = 0
    /\ containers' = ContainerExited(containers, JOB)
    /\ UNCHANGED <<level, raw_alerts, w_probes, w_last>>
    /\ UNCHANGED notWorker

\* get_results, the stats calls and the final write; the process then ends
\* with code 0.
WorkerFinish ==
    /\ WorkerAlive /\ w_pc = "get_results"
    /\ \/ \E stats \in StatsChoices, ok \in BOOLEAN :
            LET r == get_results(raw_alerts)
            IN  /\ store' = update_job(store,
                      ("status" :> COMPLETED)
                      @@ ("results" :> {r.results})
                      @@ ("alerts" :> r.alerts)
                      @@ ("scan_stats" :> {stats})
                      @@ ("completed_at" :> TRUE)
                      @@ ("progress" :> JobProgress("completed", 100, 100, <<"Scan complete">>)),
                      ok)
                /\ w_pc' = "exited"
                /\ w_exit' = 0
                /\ containers' = ContainerExited(containers, JOB)
       \/ \E ok \in BOOLEAN : WorkerFail(store, EngineError, ok)
    /\ UNCHANGED <<level, raw_alerts, w_probes, w_last>>
    /\ UNCHANGED notWorker

WorkerStep ==
    \/ WorkerStart
    \/ WorkerWaitForZap
    \/ WorkerRunSpider
    \/ WorkerSpiderPoll
    \/ WorkerScanStart
    \/ WorkerPassivePoll
    \/ WorkerPassiveDone
    \/ WorkerActivePoll
    \/ WorkerFinish

\* ----------------------------------------------------------------- Bridge

\* _STATUS_MAP
STATUS_MAP ==
    [s \in JobStatus |->
        CASE s = QUEUED -> "pending"
          [] s = DISPATCHED -> "pending"
          [] s = RUNNING -> "scanning"
          [] s = COMPLETED -> "completed"
          [] s = FAILED -> "failed"
          [] s = CANCELLED -> "failed"]

\* _PHASE_STATUS_MAP
PHASE_STATUS_MAP ==
    [p \in {"queued", "starting", "crawling", "scanning", "completed", "failed"} |->
        CASE p = "queued" -> "pending"
          [] p = "starting" -> "pending"
          [] p = "crawling" -> "crawling"
          [] p = "scanning" -> "scanning"
          [] p = "completed" -> "completed"
          [] p = "failed" -> "failed"]

\* The two tables consulted in the other order.
ExternalStatus_StatusFirst(job) ==
    IF job.status \in DOMAIN STATUS_MAP
    THEN STATUS_MAP[job.status]
    ELSE Get(PHASE_STATUS_MAP, job.progress.phase, "pending")

\* The phase mapping without the terminal override.
ExternalStatus_NoOverride(job) ==
    IF job.progress.phase \in DOMAIN PHASE_STATUS_MAP
    THEN PHASE_STATUS_MAP[job.progress.phase]
    ELSE Get(STATUS_MAP, job.status, "pending")

\* The external status sync_to_security_scan computes: phase table first,
\* then the terminal override.
ExternalStatus(job) ==
    LET phase == job.progress.phase
        byPhase == IF phase \in DOMAIN PHASE_STATUS_MAP
                   THEN PHASE_STATUS_MAP[phase]
                   ELSE Get(STATUS_MAP, job.status, "pending")
    IN  IF job.status \in {COMPLETED, FAILED, CANCELLED}
        THEN STATUS_MAP[job.status]
        ELSE byPhase

\* One internal alert in the external naming.
ExternalAlert(a) ==
    [alert |-> a.name, risk |-> a.severity, confidence |-> a.confidence,
     url |-> a.url, description |-> a.description, solution |-> a.solution,
     reference |-> a.reference, cweid |-> a.cweid, wascid |-> a.wascid]

\* Results and alerts projected whenever the job carries them.
BridgeData_AnyStatus(job) ==
    LET res == CHOOSE r \in job.results : TRUE
    IN  ("status" :> ExternalStatus(job))
        @@ ("spiderProgress" :> job.progress.spider_progress)
        @@ ("activeScanProgress" :> job.progress.active_scan_progress)
        @@ When(job.results # {},
                ("results" :> [high |-> res.high, medium |-> res.medium,
                               low |-> res.low,
                               informational |-> res.informational,
                               score |-> res.score])
                @@ ("completedAt" :> TRUE))
        @@ When(job.alerts # << >>,
                "alerts" :> [i \in 1..Len(job.alerts) |-> ExternalAlert(job.alerts[i])])
        @@ When(Truthy(job.error_message), "errorMessage" :> job.error_message)

\* The dict sync_to_security_scan passes to scan_ref.update (updatedAt, a
\* server timestamp, left out).
BridgeData(job) ==
    LET res == CHOOSE r \in job.results : TRUE
    IN  ("status" :> ExternalStatus(job))
        @@ ("spiderProgress" :> job.progress.spider_progress)
        @@ ("activeScanProgress" :> job.progress.active_scan_progress)
        @@ When(job.status = COMPLETED /\ job.results # {},
                ("results" :> [high |-> res.high, medium |-> res.medium,
                               low |-> res.low,
                               informational |-> res.informational,
                               score |-> res.score])
                @@ ("completedAt" :> TRUE))
        @@ When(job.status = COMPLETED /\ job.alerts # << >>,
                "alerts" :> [i \in 1..Len(job.alerts) |-> ExternalAlert(job.alerts[i])])
        @@ When(Truthy(job.error_message), "errorMessage" :> job.error_message)

\* The early return taken only when both ids are absent.
sync_to_security_scan_BothAbsent(job, e, resolve_ok, write_ok) ==
    IF ~Truthy(job.company_id) /\ ~Truthy(job.scan_id)
    THEN [ext |-> e,
          obs |-> [job |-> {job}, db_calls |-> 0, updates |-> << >>, raised |-> FALSE]]
    ELSE IF ~resolve_ok
    THEN [ext |-> e,
          obs |-> [job |-> {job}, db_calls |-> 1, updates |-> << >>, raised |-> TRUE]]
    ELSE [ext |-> IF write_ok THEN Update(e, BridgeData(job)) ELSE e,
          obs |-> [job |-> {job}, db_calls |-> 1, updates |-> <<BridgeData(job)>>,
                   raised |-> FALSE]]

\* A sync that leaves jobs ended by a failure or a cancel alone.
sync_to_security_scan_SkipFailed(job, e, resolve_ok, write_ok) ==
    IF ~Truthy(job.company_id) \/ ~Truthy(job.scan_id) \/ job.status \in {FAILED, CANCELLED}
    THEN [ext |-> e,
          obs |-> [job |-> {job}, db_calls |-> 0, updates |-> << >>, raised |-> FALSE]]
    ELSE IF ~resolve_ok
    THEN [ext |-> e,
          obs |-> [job |-> {job}, db_calls |-> 1, updates |-> << >>, raised |-> TRUE]]
    ELSE [ext |-> IF write_ok THEN Update(e, BridgeData(job)) ELSE e,
          obs |-> [job |-> {job}, db_calls |-> 1, updates |-> <<BridgeData(job)>>,
                   raised |-> FALSE]]

\* sync_to_security_scan(job).  resolve_ok: firestore.Client(...) of
\* _get_bridge_db returned; write_ok: scan_ref.update returned.  Gives the
\* external document afterwards and what the call did.
sync_to_security_scan(job, e, resolve_ok, write_ok) ==
    IF ~Truthy(job.company_id) \/ ~Truthy(job.scan_id)
    THEN [ext |-> e,
          obs |-> [job |-> {job}, db_calls |-> 0, updates |-> << >>, raised |-> FALSE]]
    ELSE IF ~resolve_ok
    THEN \* _get_bridge_db is called outside the try block
         [ext |-> e,
          obs |-> [job |-> {job}, db_calls |-> 1, updates |-> << >>, raised |-> TRUE]]
    ELSE [ext |-> IF write_ok THEN Update(e, BridgeData(job)) ELSE e,
          obs |-> [job |-> {job}, db_calls |-> 1, updates |-> <<BridgeData(job)>>,
                   raised |-> FALSE]]

NoSync == [job |-> {}, db_calls |-> 0, updates |-> << >>, raised |-> FALSE]

\* The security-scans document as the APP created it.
NewScanDoc == [status |-> "pending"]

\* GET /{job_id}/status for job 1 (the request is authenticated).
GetScanStatusWith(resolve_ok, write_ok) ==
    /\ LET found == get_job(store, JOB)
           job == CHOOSE j \in found : TRUE
           r == sync_to_security_scan(job, ext, resolve_ok, write_ok)
       IN  IF get_job_raises(store, JOB)
           THEN /\ s_ret' = [http |-> 500, status |-> NONE]
                /\ UNCHANGED <<ext, last_sync>>
           ELSE IF found = {}
           THEN /\ s_ret' = [http |-> 404, status |-> NONE]
                /\ UNCHANGED <<ext, last_sync>>
           ELSE /\ ext' = r.ext
                /\ last_sync' = r.obs
                /\ s_ret' = IF r.obs.raised
                            THEN [http |-> 500, status |-> NONE]
                            ELSE [http |-> 200, status |-> job.status]
    /\ UNCHANGED <<store, containers, workerVars, dispVars, orchVars, cancelVars>>

GetScanStatus ==
    \E resolve_ok \in BOOLEAN, write_ok \in BOOLEAN :
        GetScanStatusWith(resolve_ok, write_ok)

\* ------------------------------------------------------------- Dispatcher

\* Orchestrator instances that may run launch_worker at the same time.
Instances == {1, 2}

\* _count_running_workers: containers with the role label, state running.
count_running_workers(cs) ==
    Cardinality({c \in DOMAIN cs : cs[c].role = "worker" /\ cs[c].status = "running"})

CapacityMessage == "Concurrent scan limit reached"
DockerApiMessage == "Docker API error"

\* The id docker gives the container of a job's worker.
ContainerId(job_id) == job_id

\* What docker.from_env() or containers.list raises when the daemon cannot
\* be reached; it is not an APIError.
DaemonMessage == "Error while fetching server API version"

\* launch_worker, first half: the client and the count, both before the try
\* block.  With the daemon out of reach the call ends here with the
\* library's own exception.
LaunchCount(p, job_id) ==
    /\ d_pc[p] = "idle"
    /\ d_job' = [d_job EXCEPT ![p] = job_id]
    /\ \E daemon_ok \in BOOLEAN :
        IF daemon_ok
        THEN /\ d_pc' = [d_pc EXCEPT ![p] = "counted"]
             /\ d_running' = [d_running EXCEPT ![p] = count_running_workers(containers)]
             /\ UNCHANGED launch_result
        ELSE /\ d_pc' = [d_pc EXCEPT ![p] = "returned"]
             /\ launch_result' = [launch_result EXCEPT ![p] =
                    [kind |-> "DockerException", message |-> DaemonMessage,
                     container_id |-> 0, counted |-> 0]]
             /\ UNCHANGED d_running
    /\ UNCHANGED containers

\* The ceiling compared with > in place of >=.
LaunchRun_OffByOne(p) ==
    /\ d_pc[p] = "counted"
    /\ d_pc' = [d_pc EXCEPT ![p] = "returned"]
    /\ IF d_running[p] > MAX_CONCURRENT_SCANS
       THEN /\ launch_result' = [launch_result EXCEPT ![p] =
                    [kind |-> "DispatchError", message |-> "Concurrent scan limit reached",
                     container_id |-> 0, counted |-> d_running[p]]]
            /\ UNCHANGED containers
       ELSE /\ containers' = containers @@
                    (ContainerId(d_job[p]) :>
                        [job_id |-> d_job[p], role |-> "worker", status |-> "running"])
            /\ launch_result' = [launch_result EXCEPT ![p] =
                    [kind |-> "ContainerInfo", message |-> NONE,
                     container_id |-> ContainerId(d_job[p]), counted |-> d_running[p]]]
    /\ UNCHANGED <<d_running, d_job>>

\* launch_worker that counts again at the moment it starts the container.
LaunchRun_Recount(p) ==
    /\ d_pc[p] = "counted"
    /\ d_pc' = [d_pc EXCEPT ![p] = "returned"]
    /\ IF count_running_workers(containers) >= MAX_CONCURRENT_SCANS
       THEN /\ launch_result' = [launch_result EXCEPT ![p] =
                    [kind |-> "DispatchError", message |-> CapacityMessage,
                     container_id |-> 0, counted |-> d_running[p]]]
            /\ UNCHANGED containers
       ELSE \E api_ok \in BOOLEAN :
            IF api_ok /\ ContainerId(d_job[p]) \notin DOMAIN containers
            THEN /\ containers' = containers @@
                        (ContainerId(d_job[p]) :>
                            [job_id |-> d_job[p], role |-> "worker", status |-> "running"])
                 /\ launch_result' = [launch_result EXCEPT ![p] =
                        [kind |-> "ContainerInfo", message |-> NONE,
                         container_id |-> ContainerId(d_job[p]), counted |-> d_running[p]]]
            ELSE /\ launch_result' = [launch_result EXCEPT ![p] =
                        [kind |-> "DispatchError", message |-> DockerApiMessage,
                         container_id |-> 0, counted |-> d_running[p]]]
                 /\ UNCHANGED containers
    /\ UNCHANGED <<d_running, d_job>>

\* launch_worker starting its container without the role label.
LaunchRun_NoLabel(p) ==
    /\ d_pc[p] = "counted"
    /\ d_pc' = [d_pc EXCEPT ![p] = "returned"]
    /\ IF d_running[p] >= MAX_CONCURRENT_SCANS
       THEN /\ launch_result' = [launch_result EXCEPT ![p] =
                    [kind |-> "DispatchError", message |-> CapacityMessage,
                     container_id |-> 0, counted |-> d_running[p]]]
            /\ UNCHANGED containers
       ELSE \E api_ok \in BOOLEAN :
            IF api_ok /\ ContainerId(d_job[p]) \notin DOMAIN containers
            THEN /\ containers' = containers @@
                        (ContainerId(d_job[p]) :>
                            [job_id |-> d_job[p], role |-> "none", status |-> "running"])
                 /\ launch_result' = [launch_result EXCEPT ![p] =
                        [kind |-> "ContainerInfo", message |-> NONE,
                         container_id |-> ContainerId(d_job[p]), counted |-> d_running[p]]]
            ELSE /\ launch_result' = [launch_result EXCEPT ![p] =
                        [kind |-> "DispatchError", message |-> DockerApiMessage,
                         container_id |-> 0, counted |-> d_running[p]]]
                 /\ UNCHANGED containers
    /\ UNCHANGED <<d_running, d_job>>

\* launch_worker, second half: the ceiling, then containers.run.
LaunchRun(p) ==
    /\ d_pc[p] = "counted"
    /\ d_pc' = [d_pc EXCEPT ![p] = "returned"]
    /\ IF d_running[p] >= MAX_CONCURRENT_SCANS
       THEN /\ launch_result' = [launch_result EXCEPT ![p] =
                    [kind |-> "DispatchError", message |-> CapacityMessage,
                     container_id |-> 0, counted |-> d_running[p]]]
            /\ UNCHANGED containers
       ELSE \E api_ok \in BOOLEAN :
            IF api_ok /\ ContainerId(d_job[p]) \notin DOMAIN containers
            THEN /\ containers' = containers @@
                        (ContainerId(d_job[p]) :>
                            [job_id |-> d_job[p], role |-> "worker", status |-> "running"])
                 /\ launch_result' = [launch_result EXCEPT ![p] =
                        [kind |-> "ContainerInfo", message |-> NONE,
                         container_id |-> ContainerId(d_job[p]), counted |-> d_running[p]]]
            ELSE /\ launch_result' = [launch_result EXCEPT ![p] =
                        [kind |-> "DispatchError", message |-> DockerApiMessage,
                         container_id |-> 0, counted |-> d_running[p]]]
                 /\ UNCHANGED containers
    /\ UNCHANGED <<d_running, d_job>>

NoResult == [kind |-> NONE, message |-> NONE, container_id |-> 0, counted |-> 0]

\* container.stop(timeout=10)
STOP_TIMEOUT == 10

\* stop_worker(container_id): what it returns ("True", "False", or "raised"
\* when an exception leaves it), the containers afterwards, and the grace
\* period of the stop request it made (0: none made).  _get_client() is
\* called before the try block; containers.get raises NotFound for an id
\* the daemon does not hold; the daemon takes a stop request for any
\* container it holds, exited ones included.
stop_worker(cs, container_id, daemon_ok, api_ok) ==
    IF ~daemon_ok
    THEN [ret |-> "raised", containers |-> cs, timeout |-> 0]
    ELSE IF container_id \notin DOMAIN cs
    THEN [ret |-> "False", containers |-> cs, timeout |-> 0]
    ELSE IF api_ok
    THEN [ret |-> "True", containers |-> ContainerExited(cs, container_id),
          timeout |-> STOP_TIMEOUT]
    ELSE [ret |-> "False", containers |-> cs, timeout |-> STOP_TIMEOUT]

NoStop == [ret |-> NONE, container_id |-> 0, timeout |-> 0]

\* remove=True: the daemon removes a container that has exited.
ContainerReap ==
    /\ \E c \in DOMAIN containers :
        /\ containers[c].role = "worker"
        /\ containers[c].status = "exited"
        /\ containers' = [k \in DOMAIN containers \ {c} |-> containers[k]]
    /\ UNCHANGED <<store, workerVars, bridgeVars, dispVars, orchVars, cancelVars, s_ret>>

\* A worker other than job 1's runs to its end.
OtherWorkerExit ==
    /\ \E c \in DOMAIN containers :
        /\ c # ContainerId(JOB)
        /\ containers[c].role = "worker"
        /\ containers[c].status = "running"
        /\ containers' = ContainerExited(containers, c)
    /\ UNCHANGED <<store, workerVars, bridgeVars, dispVars, orchVars, cancelVars, s_ret>>

\* ------------------------------------------------- scan request handlers

TimeoutMessage == "Scan timed out after 1 hour"

\* _format_results that leaves the summary out.
format_results_NoSummary(job) ==
    ("job_id" :> job.job_id) @@ ("status" :> "completed")
    @@ ("target_url" :> job.config.target_url)
    @@ ("scan_level" :> job.config.scan_level)

\* _format_results(job)
format_results(job) ==
    LET res == CHOOSE r \in job.results : TRUE
        stats == CHOOSE r \in job.scan_stats : TRUE
    IN  ("job_id" :> job.job_id) @@ ("status" :> "completed")
        @@ ("target_url" :> job.config.target_url)
        @@ ("scan_level" :> job.config.scan_level)
        @@ When(job.results # {},
                "summary" :> [high |-> res.high, medium |-> res.medium, low |-> res.low,
                              informational |-> res.informational,
                              security_score |-> res.score])
        @@ When(job.alerts # << >>,
                ("vulnerabilities" :>
                    [i \in 1..Len(job.alerts) |->
                        [name |-> job.alerts[i].name, severity |-> job.alerts[i].severity,
                         url |-> job.alerts[i].url,
                         description |-> job.alerts[i].description,
                         solution |-> job.alerts[i].solution,
                         cwe_id |-> job.alerts[i].cweid, wasc_id |-> job.alerts[i].wascid]])
                @@ ("vulnerability_count" :> Len(job.alerts)))
        @@ When(job.scan_stats # {},
                "stats" :> [urls_crawled |-> stats.urls_crawled,
                            requests_sent |-> stats.requests_sent,
                            duration_seconds |-> stats.duration_seconds])

\* What a handler of the scan request leaves alone besides its own variables.
notOrch == <<level, raw_alerts, w_pc, w_probes, w_last, w_exit, c_pc, c_cid, c_ret, stop_ret,
             s_ret>>

\* class ScanLevel
ScanLevel == {"light", "deep", "aggressive"}

\* ScanLevel(scan_level.lower()) of scan_web_application; the request body
\* of start_scan is validated against the enum's values as they are.
LevelAccepted(flow, scan_level) ==
    IF flow = "mcp" THEN Lower(scan_level) \in ScanLevel ELSE scan_level \in ScanLevel

\* The handler's first step with the scan level taken as it came.
OrchCreate_NoValidation ==
    /\ o_pc = "request"
    /\ store' = (JOB :>
          IF o_flow = "mcp"
          THEN NewJobDoc(JOB, "mcp", Lower(level), NONE, NONE)
          ELSE NewJobDoc(JOB, "app-scanner", level, "comp-123", "scan-456")) @@ store
    /\ level' = IF o_flow = "mcp" THEN Lower(level) ELSE level
    /\ o_pc' = "launch"
    /\ UNCHANGED <<containers, bridgeVars, dispVars, o_flow, o_exc, elapsed, o_ret,
                   raw_alerts, w_pc, w_probes, w_last, w_exit, cancelVars, s_ret>>

\* The scan level is validated, then create_job: scan_web_application
\* creates an MCP job, start_scan an APP job carrying company_id and
\* scan_id.  The worker is later given level.value as SCAN_LEVEL.
OrchCreate ==
    /\ o_pc = "request"
    /\ IF LevelAccepted(o_flow, level)
       THEN /\ store' = (JOB :>
                  IF o_flow = "mcp"
                  THEN NewJobDoc(JOB, "mcp", Lower(level), NONE, NONE)
                  ELSE NewJobDoc(JOB, "app-scanner", level, "comp-123", "scan-456"))
                  @@ store
            /\ level' = IF o_flow = "mcp" THEN Lower(level) ELSE level
            /\ o_pc' = "launch"
            /\ UNCHANGED o_ret
       ELSE /\ o_ret' = IF o_flow = "mcp"
                        THEN "error" :> <<"Invalid scan_level: ", level>>
                        ELSE "http" :> 422
            /\ o_pc' = "done"
            /\ UNCHANGED <<store, level>>
    /\ UNCHANGED <<containers, bridgeVars, dispVars, o_flow, o_exc, elapsed,
                   raw_alerts, w_pc, w_probes, w_last, w_exit, cancelVars, s_ret>>

\* The handler enters launch_worker.
OrchLaunch ==
    /\ o_pc = "launch"
    /\ LaunchCount(1, JOB)
    /\ o_pc' = "launching"
    /\ UNCHANGED <<store, bridgeVars, launched, o_flow, o_exc, elapsed, o_ret, notOrch>>

\* launch_worker of the handler goes on; a started container runs the
\* worker's main().
OrchLaunchRun ==
    /\ o_pc = "launching"
    /\ LaunchRun(1)
    /\ w_pc' = IF launch_result'[1].kind = "ContainerInfo" THEN "main" ELSE w_pc
    /\ UNCHANGED <<store, bridgeVars, launched, orchVars, level, raw_alerts, w_probes, w_last,
                   w_exit, cancelVars, s_ret>>

\* launch_worker returned a ContainerInfo: update_status(DISPATCHED).
\* start_scan then answers; scan_web_application goes on to poll.
OrchDispatched ==
    /\ o_pc = "launching" /\ d_pc[1] = "returned"
    /\ launch_result[1].kind = "ContainerInfo"
    /\ store' = update_status(store, JOB, DISPATCHED, launch_result[1].container_id, NONE)
    /\ d_pc' = [d_pc EXCEPT ![1] = "idle"]
    /\ IF o_flow = "mcp"
       THEN /\ o_pc' = "poll"
            /\ UNCHANGED o_ret
       ELSE /\ o_pc' = "done"
            /\ o_ret' = ("http" :> 200) @@ ("job_id" :> JOB) @@ ("status" :> "queued")
    /\ UNCHANGED <<containers, bridgeVars, d_running, d_job, launch_result, launched,
                   o_flow, o_exc, elapsed, notOrch>>

\* except DispatchError: fail_job(str(exc)).  scan_web_application returns
\* the error; start_scan goes on to sync the failure.
OrchDispatchFailed ==
    /\ o_pc = "launching" /\ d_pc[1] = "returned"
    /\ launch_result[1].kind = "DispatchError"
    /\ store' = fail_job(store, JOB, launch_result[1].message)
    /\ d_pc' = [d_pc EXCEPT ![1] = "idle"]
    /\ o_exc' = launch_result[1].message
    /\ IF o_flow = "mcp"
       THEN /\ o_pc' = "done"
            /\ o_ret' = ("error" :> launch_result[1].message) @@ ("job_id" :> JOB)
                        @@ ("status" :> "failed")
       ELSE /\ o_pc' = "failed_sync"
            /\ UNCHANGED o_ret
    /\ UNCHANGED <<containers, bridgeVars, d_running, d_job, launch_result, launched,
                   o_flow, elapsed, notOrch>>

\* launch_worker ended with an exception that is not a DispatchError: no
\* except clause of the handler takes it, and it leaves the handler.
OrchLaunchEscaped ==
    /\ o_pc = "launching" /\ d_pc[1] = "returned"
    /\ launch_result[1].kind \notin {"ContainerInfo", "DispatchError"}
    /\ d_pc' = [d_pc EXCEPT ![1] = "idle"]
    /\ o_exc' = launch_result[1].message
    /\ o_pc' = "done"
    /\ o_ret' = IF o_flow = "mcp"
                THEN "raised" :> launch_result[1].kind
                ELSE ("http" :> 500) @@ ("raised" :> launch_result[1].kind)
    /\ UNCHANGED <<store, containers, bridgeVars, d_running, d_job, launch_result,
                   launched, o_flow, elapsed, notOrch>>

\* start_scan after fail_job: read the job, sync it, answer 503.
OrchFailedSync ==
    /\ o_pc = "failed_sync"
    /\ \E resolve_ok \in BOOLEAN, write_ok \in BOOLEAN :
        LET found == get_job(store, JOB)
            failed_job == CHOOSE j \in found : TRUE
            r == sync_to_security_scan(failed_job, ext, resolve_ok, write_ok)
        IN  IF get_job_raises(store, JOB)
            THEN /\ o_ret' = ("http" :> 500) @@ ("raised" :> "ValidationError")
                 /\ UNCHANGED <<ext, last_sync>>
            ELSE IF found = {}
            THEN /\ o_ret' = ("http" :> 503) @@ ("error" :> o_exc) @@ ("job_id" :> JOB)
                 /\ UNCHANGED <<ext, last_sync>>
            ELSE /\ ext' = r.ext
                 /\ last_sync' = r.obs
                 /\ o_ret' = IF r.obs.raised
                             THEN "http" :> 500
                             ELSE ("http" :> 503) @@ ("error" :> o_exc) @@ ("job_id" :> JOB)
    /\ o_pc' = "done"
    /\ UNCHANGED <<store, containers, dispVars, o_flow, o_exc, elapsed, notOrch>>

\* The polling loop without its 'elapsed += POLL_INTERVAL_SECONDS'.
OrchPoll_NoClock ==
    /\ o_pc = "poll"
    /\ elapsed < MAX_POLL_DURATION_SECONDS
    /\ elapsed' = elapsed
    /\ LET found == get_job(store, JOB)
           current == CHOOSE j \in found : TRUE
       IN  IF get_job_raises(store, JOB)
           THEN /\ o_ret' = "raised" :> "ValidationError"
                /\ o_pc' = "done"
           ELSE IF found = {}
           THEN /\ o_ret' = ("error" :> "Job disappeared") @@ ("job_id" :> JOB)
                /\ o_pc' = "done"
           ELSE IF current.status = COMPLETED
           THEN /\ o_ret' = format_results(current)
                /\ o_pc' = "done"
           ELSE IF current.status \in {FAILED, CANCELLED}
           THEN /\ o_ret' = ("error" :> IF Truthy(current.error_message)
                                        THEN current.error_message
                                        ELSE <<"Scan ", current.status>>)
                            @@ ("job_id" :> JOB) @@ ("status" :> current.status)
                /\ o_pc' = "done"
           ELSE UNCHANGED <<o_ret, o_pc>>
    /\ UNCHANGED <<store, containers, bridgeVars, dispVars, o_flow, o_exc, notOrch>>

\* One iteration of the polling loop: sleep, elapsed += interval, read,
\* return on a missing job or a terminal status.
OrchPoll ==
    /\ o_pc = "poll"
    /\ elapsed < MAX_POLL_DURATION_SECONDS
    /\ elapsed' = elapsed + POLL_INTERVAL_SECONDS
    /\ LET found == get_job(store, JOB)
           current == CHOOSE j \in found : TRUE
       IN  IF get_job_raises(store, JOB)
           THEN /\ o_ret' = "raised" :> "ValidationError"
                /\ o_pc' = "done"
           ELSE IF found = {}
           THEN /\ o_ret' = ("error" :> "Job disappeared") @@ ("job_id" :> JOB)
                /\ o_pc' = "done"
           ELSE IF current.status = COMPLETED
           THEN /\ o_ret' = format_results(current)
                /\ o_pc' = "done"
           ELSE IF current.status \in {FAILED, CANCELLED}
           THEN /\ o_ret' = ("error" :> IF Truthy(current.error_message)
                                        THEN current.error_message
                                        ELSE <<"Scan ", current.status>>)
                            @@ ("job_id" :> JOB) @@ ("status" :> current.status)
                /\ o_pc' = "done"
           ELSE UNCHANGED <<o_ret, o_pc>>
    /\ UNCHANGED <<store, containers, bridgeVars, dispVars, o_flow, o_exc, notOrch>>

\* A timeout that also stops the job's worker.
OrchTimeout_StopsWorker ==
    /\ o_pc = "poll"
    /\ ~(elapsed < MAX_POLL_DURATION_SECONDS)
    /\ store' = fail_job(store, JOB, TimeoutMessage)
    /\ o_ret' = ("error" :> TimeoutMessage) @@ ("job_id" :> JOB) @@ ("status" :> "failed")
    /\ o_pc' = "done"
    /\ containers' = IF JOB \in DOMAIN containers
                     THEN ContainerExited(containers, JOB)
                     ELSE containers
    /\ UNCHANGED <<bridgeVars, dispVars, o_flow, o_exc, elapsed, notOrch>>

\* The loop ran out: fail_job with the timeout message, return the error.
OrchTimeout ==
    /\ o_pc = "poll"
    /\ ~(elapsed < MAX_POLL_DURATION_SECONDS)
    /\ store' = fail_job(store, JOB, TimeoutMessage)
    /\ o_ret' = ("error" :> TimeoutMessage) @@ ("job_id" :> JOB) @@ ("status" :> "failed")
    /\ o_pc' = "done"
    /\ UNCHANGED <<containers, bridgeVars, dispVars, o_flow, o_exc, elapsed, notOrch>>

\* ------------------------------------------------------------ cancel_scan

notCancel == <<level, raw_alerts, w_probes, w_last, dispVars, orchVars, s_ret>>

\* cancel_scan that goes to its CANCELLED write without the stop call.
CancelRead_NoStop ==
    /\ c_pc = "idle"
    /\ LET found == get_job(store, JOB)
           job == CHOOSE j \in found : TRUE
       IN  IF get_job_raises(store, JOB)
           THEN /\ c_ret' = [http |-> 500, status |-> NONE, message |-> NONE]
                /\ c_pc' = "done"
                /\ UNCHANGED c_cid
           ELSE IF found = {}
           THEN /\ c_ret' = [http |-> 404, status |-> NONE, message |-> "not found"]
                /\ c_pc' = "done"
                /\ UNCHANGED c_cid
           ELSE IF job.status \in {COMPLETED, FAILED, CANCELLED}
           THEN /\ c_ret' = [http |-> 200, status |-> job.status, message |-> "Job already"]
                /\ c_pc' = "done"
                /\ UNCHANGED c_cid
           ELSE /\ c_cid' = job.container_id
                /\ c_pc' = "write"
                /\ UNCHANGED c_ret
    /\ UNCHANGED <<store, containers, bridgeVars, w_pc, w_exit, stop_ret, notCancel>>

\* POST /{job_id}/cancel: read the job; answer at once when it is missing
\* or already terminal.
CancelRead ==
    /\ c_pc = "idle"
    /\ LET found == get_job(store, JOB)
           job == CHOOSE j \in found : TRUE
       IN  IF get_job_raises(store, JOB)
           THEN /\ c_ret' = [http |-> 500, status |-> NONE, message |-> NONE]
                /\ c_pc' = "done"
                /\ UNCHANGED c_cid
           ELSE IF found = {}
           THEN /\ c_ret' = [http |-> 404, status |-> NONE, message |-> "not found"]
                /\ c_pc' = "done"
                /\ UNCHANGED c_cid
           ELSE IF job.status \in {COMPLETED, FAILED, CANCELLED}
           THEN /\ c_ret' = [http |-> 200, status |-> job.status, message |-> "Job already"]
                /\ c_pc' = "done"
                /\ UNCHANGED c_cid
           ELSE /\ c_cid' = job.container_id
                /\ c_pc' = IF job.container_id # 0 THEN "stop" ELSE "write"
                /\ UNCHANGED c_ret
    /\ UNCHANGED <<store, containers, bridgeVars, w_pc, w_exit, stop_ret, notCancel>>

\* stop_worker(job.container_id): a stopped container ends its worker.
\* An exception of stop_worker leaves cancel_scan: the request fails.
CancelStop ==
    /\ c_pc = "stop"
    /\ \E daemon_ok \in BOOLEAN, api_ok \in BOOLEAN :
        LET r == stop_worker(containers, c_cid, daemon_ok, api_ok)
            killed == /\ r.ret = "True"
                      /\ c_cid = ContainerId(JOB)
                      /\ containers[c_cid].status = "running"
        IN  /\ containers' = r.containers
            /\ stop_ret' = [ret |-> r.ret, container_id |-> c_cid, timeout |-> r.timeout]
            /\ w_pc' = IF killed THEN "exited" ELSE w_pc
            /\ w_exit' = IF killed THEN 137 ELSE w_exit
            /\ IF r.ret = "raised"
               THEN /\ c_pc' = "done"
                    /\ c_ret' = [http |-> 500, status |-> NONE, message |-> NONE]
               ELSE /\ c_pc' = "write"
                    /\ UNCHANGED c_ret
    /\ UNCHANGED <<store, bridgeVars, c_cid, notCancel>>

\* A cancel write that gives way to a terminal status already stored.
CancelWrite_TieBreak ==
    /\ c_pc = "write"
    /\ store' = IF store[JOB].status \in TerminalStatus
                THEN store
                ELSE update_status(store, JOB, CANCELLED, 0, NONE)
    /\ c_pc' = "sync"
    /\ UNCHANGED <<containers, bridgeVars, w_pc, w_exit, c_cid, c_ret, stop_ret,
                   notCancel>>

\* update_status(job_id, CANCELLED)
CancelWrite ==
    /\ c_pc = "write"
    /\ store' = update_status(store, JOB, CANCELLED, 0, NONE)
    /\ c_pc' = "sync"
    /\ UNCHANGED <<containers, bridgeVars, w_pc, w_exit, c_cid, c_ret, stop_ret,
                   notCancel>>

\* Read the job again, sync it, answer.
CancelSync ==
    /\ c_pc = "sync"
    /\ \E resolve_ok \in BOOLEAN, write_ok \in BOOLEAN :
        LET found == get_job(store, JOB)
            cancelled_job == CHOOSE j \in found : TRUE
            r == sync_to_security_scan(cancelled_job, ext, resolve_ok, write_ok)
        IN  IF get_job_raises(store, JOB)
            THEN /\ c_ret' = [http |-> 500, status |-> NONE, message |-> NONE]
                 /\ UNCHANGED <<ext, last_sync>>
            ELSE IF found = {}
            THEN /\ c_ret' = [http |-> 200, status |-> "cancelled",
                              message |-> "Scan cancelled successfully"]
                 /\ UNCHANGED <<ext, last_sync>>
            ELSE /\ ext' = r.ext
                 /\ last_sync' = r.obs
                 /\ c_ret' = IF r.obs.raised
                             THEN [http |-> 500, status |-> NONE, message |-> NONE]
                             ELSE [http |-> 200, status |-> "cancelled",
                                   message |-> "Scan cancelled successfully"]
    /\ c_pc' = "done"
    /\ UNCHANGED <<store, containers, w_pc, w_exit, c_cid, stop_ret, notCancel>>

\* --------------------------------------------------------- specifications

\* Nothing launched, no request in flight.
IdleWorker == w_pc = "none" /\ w_probes = 0 /\ w_last = 0 /\ w_exit = -1
IdleBridge == ext = NewScanDoc /\ last_sync = NoSync
IdleDispatcher ==
    /\ d_pc = [p \in Instances |-> "idle"]
    /\ d_running = [p \in Instances |-> 0]
    /\ d_job = [p \in Instances |-> 0]
    /\ launch_result = [p \in Instances |-> NoResult]
    /\ launched = 0
IdleCancel ==
    /\ c_pc = "idle" /\ c_cid = 0
    /\ c_ret = [http |-> 0, status |-> NONE, message |-> NONE]
    /\ stop_ret = NoStop
IdleStatus == s_ret = [http |-> 0, status |-> NONE]

\* Workers of other jobs, all running.
OtherWorkers(n) ==
    [c \in 2..(n + 1) |-> [job_id |-> c, role |-> "worker", status |-> "running"]]

\* Findings the engine may hold at the end of a scan.
FindingChoices ==
    {<< >>,
     <<("risk" :> "High") @@ ("alert" :> "SQL Injection") @@ ("cweid" :> "89"),
       ("risk" :> "Informational") @@ ("name" :> "Banner")>>}

\* The scan_level a request may carry: the three levels, one of them in
\* capitals, and two values that are no level.
RequestedLevels == {"light", "deep", "aggressive", "LIGHT", "extreme", ""}

\* One scan request for job 1, from the request to the caller's answer,
\* with the job's worker, one cancel request and any number of status
\* requests interleaved.  The daemon is either empty or at the ceiling.
Init ==
    /\ store = EmptyDict
    /\ \E n \in {0, MAX_CONCURRENT_SCANS} : containers = OtherWorkers(n)
    /\ level \in RequestedLevels
    /\ raw_alerts \in FindingChoices
    /\ IdleWorker /\ IdleBridge /\ IdleDispatcher /\ IdleCancel /\ IdleStatus
    /\ o_pc = "request"
    /\ o_flow \in {"mcp", "app"}
    /\ o_exc = NONE
    /\ elapsed = 0
    /\ o_ret = EmptyDict

Next ==
    \/ OrchCreate
    \/ OrchLaunch
    \/ OrchLaunchRun
    \/ OrchDispatched
    \/ OrchDispatchFailed
    \/ OrchLaunchEscaped
    \/ OrchFailedSync
    \/ OrchPoll
    \/ OrchTimeout
    \/ WorkerStep
    \/ CancelRead
    \/ CancelStop
    \/ CancelWrite
    \/ CancelSync
    \/ ContainerReap

Spec == Init /\ [][Next]_vars

\* ---- the worker's results and score, for every list of findings in bounds

\* A job as its worker sees it on reaching get_results: dispatched, running,
\* scanning written at 100/100.
ScanningDoc ==
    [NewJobDoc(JOB, "app-scanner", "light", "comp-123", "scan-456") EXCEPT
        !.status = RUNNING, !.container_id = ContainerId(JOB), !.started_at = TRUE,
        !.progress = JobProgress("scanning", 100, 100, <<"Passive analysis complete">>)]

\* The engine's findings: h High, m Medium, l Low and i Informational alerts.
RawAlertsOf(h, m, l, i) ==
    [k \in 1..(h + m + l + i) |->
        ("alert" :> "finding") @@
        ("risk" :> IF k <= h THEN "High"
                   ELSE IF k <= h + m THEN "Medium"
                   ELSE IF k <= h + m + l THEN "Low"
                   ELSE "Informational")]

InitScore ==
    /\ store = (JOB :> ScanningDoc)
    /\ containers = (ContainerId(JOB) :>
            [job_id |-> JOB, role |-> "worker", status |-> "running"])
    /\ level = "light"
    /\ \E h \in 0..MaxHigh, m \in 0..MaxMedium, l \in 0..MaxLow, i \in 0..MaxInfo :
            raw_alerts = RawAlertsOf(h, m, l, i)
    /\ w_pc = "get_results" /\ w_probes = 0 /\ w_last = 0 /\ w_exit = -1
    /\ IdleBridge /\ IdleDispatcher /\ IdleCancel /\ IdleStatus
    /\ o_pc = "done" /\ o_flow = "app" /\ o_exc = NONE /\ elapsed = 0
    /\ o_ret = ("http" :> 200) @@ ("job_id" :> JOB) @@ ("status" :> "queued")

NextScore == WorkerFinish

SpecScore == InitScore /\ [][NextScore]_vars

\* ---- the Job Store, called with every argument in bounds

\* JobProgress values a caller may pass to update_progress.
ProgressChoices ==
    {DefaultProgress,
     JobProgress("crawling", 50, 0, <<"Discovering pages...">>),
     JobProgress("scanning", 100, 40, << >>)}

\* error_message arguments of update_status: None, the empty string, a text.
MessageChoices == {NONE, "", "Container crashed"}

\* What a call of the Job Store leaves alone.
notStore == <<containers, workerVars, bridgeVars, dispVars, orchVars, cancelVars, s_ret>>

StoreUpdateStatus ==
    /\ \E status \in JobStatus, container_id \in {0, ContainerId(JOB)},
          error_message \in MessageChoices :
        store' = update_status(store, JOB, status, container_id, error_message)
    /\ UNCHANGED notStore

StoreFailJob ==
    /\ \E error_message \in {"Container crashed", TimeoutMessage} :
        store' = fail_job(store, JOB, error_message)
    /\ UNCHANGED notStore

StoreUpdateProgressWith(progress) ==
    /\ store' = update_progress(store, JOB, progress)
    /\ UNCHANGED notStore

StoreUpdateProgress == \E progress \in ProgressChoices : StoreUpdateProgressWith(progress)

StoreCompleteJob ==
    /\ \E raw \in FindingChoices, scan_stats \in {{}} \cup {{x} : x \in StatsChoices} :
        LET r == get_results(raw)
        IN  store' = complete_job(store, JOB, r.results, r.alerts, scan_stats)
    /\ UNCHANGED notStore

InitStore ==
    /\ store = (JOB :> NewJobDoc(JOB, "app-scanner", "light", "comp-123", "scan-456"))
    /\ containers = EmptyDict
    /\ level = "light" /\ raw_alerts = << >>
    /\ IdleWorker /\ IdleBridge /\ IdleDispatcher /\ IdleCancel /\ IdleStatus
    /\ o_pc = "done" /\ o_flow = "app" /\ o_exc = NONE /\ elapsed = 0
    /\ o_ret = ("http" :> 200) @@ ("job_id" :> JOB) @@ ("status" :> "queued")

NextStore ==
    \/ StoreUpdateStatus
    \/ StoreFailJob
    \/ StoreUpdateProgress
    \/ StoreCompleteJob

SpecStore == InitStore /\ [][NextStore]_vars

\* ---- one worker run on its own, from the start of main()

\* The container was started for the job; the handler's DISPATCHED write
\* may or may not have been made yet.
InitWorker ==
    /\ \E lvl \in ScanLevel, st \in {QUEUED, DISPATCHED} :
        /\ level = lvl
        /\ store = (JOB :> [NewJobDoc(JOB, "app-scanner", lvl, "comp-123", "scan-456")
                              EXCEPT !.status = st,
                                     !.container_id = IF st = DISPATCHED
                                                      THEN ContainerId(JOB) ELSE 0])
    /\ containers = (ContainerId(JOB) :>
            [job_id |-> JOB, role |-> "worker", status |-> "running"])
    /\ raw_alerts \in FindingChoices
    /\ w_pc = "main" /\ w_probes = 0 /\ w_last = 0 /\ w_exit = -1
    /\ IdleBridge /\ IdleDispatcher /\ IdleCancel /\ IdleStatus
    /\ o_pc = "done" /\ o_flow = "app" /\ o_exc = NONE /\ elapsed = 0
    /\ o_ret = ("http" :> 200) @@ ("job_id" :> JOB) @@ ("status" :> "queued")

NextWorker == WorkerStep

\* The process is scheduled, and each of the three polling loops is left
\* in the end: its status call raises or reports completion (crawl 100,
\* active scan 100, no passive records remaining).
SpecWorkerFair ==
    /\ InitWorker /\ [][NextWorker]_vars
    /\ WF_vars(WorkerStep)
    /\ WF_vars(WorkerSpiderPoll /\ w_pc' # w_pc)
    /\ WF_vars(WorkerPassivePoll /\ w_pc' # w_pc)
    /\ WF_vars(WorkerActivePoll /\ w_pc' # w_pc)

\* ---- the classification of findings, for every list in bounds

\* Alerts of core/view/alerts: the risk in several spellings, a risk that is
\* no severity, a risk of None and an alert without the key; each has its
\* own name, under "alert" or under "name".
AlertShapes ==
    {("risk" :> "HIGH") @@ ("alert" :> "SQL Injection"),
     ("risk" :> "medium") @@ ("alert" :> "Missing CSP"),
     ("risk" :> "Low") @@ ("name" :> "Cookie without flag"),
     ("risk" :> "Critical") @@ ("alert" :> "Unknown risk"),
     ("risk" :> NONE) @@ ("alert" :> "Null risk"),
     ("name" :> "No risk")}

RECURSIVE AlertLists(_)
AlertLists(n) ==
    IF n = 0 THEN {<< >>}
    ELSE LET shorter == AlertLists(n - 1)
         IN  shorter \cup {Append(l, a) : l \in {x \in shorter : Len(x) = n - 1},
                                          a \in AlertShapes}

InitClassify ==
    /\ store = (JOB :> ScanningDoc)
    /\ containers = (ContainerId(JOB) :>
            [job_id |-> JOB, role |-> "worker", status |-> "running"])
    /\ level = "light"
    /\ raw_alerts \in AlertLists(MaxFindings)
    /\ w_pc = "get_results" /\ w_probes = 0 /\ w_last = 0 /\ w_exit = -1
    /\ IdleBridge /\ IdleDispatcher /\ IdleCancel /\ IdleStatus
    /\ o_pc = "done" /\ o_flow = "app" /\ o_exc = NONE /\ elapsed = 0
    /\ o_ret = ("http" :> 200) @@ ("job_id" :> JOB) @@ ("status" :> "queued")

NextClassify == WorkerFinish

SpecClassify == InitClassify /\ [][NextClassify]_vars

\* ---- the Bridge, for every job record in bounds

\* Job records a status request may read.  Any phase string can be stored
\* (update_progress takes any JobProgress); "custom" stands for the phases
\* outside the phase table.
BridgeJobs ==
    {[NewJobDoc(JOB, "app-scanner", "light", cid, sid) EXCEPT
        !.status = st, !.progress = JobProgress(ph, pr[1], pr[2], << >>),
        !.results = rs, !.alerts = al, !.error_message = em] :
      cid \in {NONE, "comp-123"}, sid \in {NONE, "", "scan-456"},
      st \in JobStatus,
      ph \in {"queued", "starting", "crawling", "scanning", "completed", "failed", "custom"},
      pr \in {<<0, 0>>, <<100, 75>>},
      rs \in {{}, {[high |-> 1, medium |-> 0, low |-> 0, informational |-> 3, score |-> 88]}},
      al \in {<< >>, <<AlertOf(("risk" :> "High") @@ ("alert" :> "SQL Injection"))>>},
      em \in {NONE, "", "Container crashed"}}

InitBridge ==
    /\ \E job \in BridgeJobs : store = (JOB :> job)
    /\ containers = EmptyDict
    /\ level = "light" /\ raw_alerts = << >>
    /\ IdleWorker /\ IdleBridge /\ IdleDispatcher /\ IdleCancel /\ IdleStatus
    /\ o_pc = "done" /\ o_flow = "app" /\ o_exc = NONE /\ elapsed = 0
    /\ o_ret = ("http" :> 200) @@ ("job_id" :> JOB) @@ ("status" :> "queued")

NextBridge == GetScanStatus

SpecBridge == InitBridge /\ [][NextBridge]_vars

\* Status requests keep coming and the sync of a request does not fail for
\* ever: a request whose client and write both succeed is eventually made.
SpecBridgeFair ==
    InitBridge /\ [][NextBridge]_vars /\ WF_vars(GetScanStatusWith(TRUE, TRUE))

\* ---- the Dispatcher under launches from two orchestrator instances

notDispatcher == <<store, workerVars, bridgeVars, orchVars, cancelVars, s_ret>>

\* An instance calls launch_worker for the next new job.
DispatchCall ==
    /\ launched < MaxLaunches
    /\ \E p \in Instances : LaunchCount(p, launched + 2)
    /\ launched' = launched + 1
    /\ UNCHANGED notDispatcher

DispatchRun ==
    /\ \E p \in Instances : LaunchRun(p)
    /\ UNCHANGED <<launched, notDispatcher>>

\* The caller takes the outcome of launch_worker.
DispatchReturn ==
    /\ \E p \in Instances :
        /\ d_pc[p] = "returned"
        /\ d_pc' = [d_pc EXCEPT ![p] = "idle"]
    /\ UNCHANGED <<containers, d_running, d_job, launch_result, launched, notDispatcher>>

\* stop_worker is called once, at any moment, for a handle the daemon may
\* or may not hold.
DispatchStop ==
    /\ stop_ret = NoStop
    /\ \E h \in 2..(MaxLaunches + 1), daemon_ok \in BOOLEAN, api_ok \in BOOLEAN :
        LET r == stop_worker(containers, h, daemon_ok, api_ok)
        IN  /\ containers' = r.containers
            /\ stop_ret' = [ret |-> r.ret, container_id |-> h, timeout |-> r.timeout]
    /\ UNCHANGED <<store, workerVars, bridgeVars, dispVars, orchVars, c_pc, c_cid,
                   c_ret, s_ret>>

\* Another container of the daemon, without the role label.
ForeignContainer == (0 :> [job_id |-> 0, role |-> "none", status |-> "running"])

InitDispatch ==
    /\ store = EmptyDict
    /\ containers \in {EmptyDict, ForeignContainer}
    /\ level = "light" /\ raw_alerts = << >>
    /\ IdleWorker /\ IdleBridge /\ IdleDispatcher /\ IdleCancel /\ IdleStatus
    /\ o_pc = "request" /\ o_flow = "mcp" /\ o_exc = NONE /\ elapsed = 0
    /\ o_ret = EmptyDict

NextDispatch ==
    \/ DispatchCall
    \/ DispatchRun
    \/ DispatchReturn
    \/ OtherWorkerExit
    \/ ContainerReap

SpecDispatch == InitDispatch /\ [][NextDispatch]_vars

\* ---- the polling loop, for every job record a read may return

\* What the worker's final write attaches, with and without findings.
PollBundles ==
    {[results |-> {get_results(raw).results}, alerts |-> get_results(raw).alerts,
      scan_stats |-> {[urls_crawled |-> 3, requests_sent |-> 7, duration_seconds |-> 1]}] :
        raw \in FindingChoices}

\* Records of an MCP job the loop may read: any status, with or without an
\* error message, with or without the final write's results (a COMPLETED
\* record always has them), the progress of a passive scan in or out of range.
PollJobs ==
    {j \in {[NewJobDoc(JOB, "mcp", "light", NONE, NONE) EXCEPT
               !.status = st, !.error_message = em, !.container_id = ContainerId(JOB),
               !.results = b.results, !.alerts = b.alerts, !.scan_stats = b.scan_stats,
               !.progress = JobProgress("scanning", 100, ap, << >>)] :
             st \in JobStatus, em \in {NONE, "Container crashed"},
             b \in PollBundles
                    \cup {[results |-> {}, alerts |-> << >>, scan_stats |-> {}]},
             ap \in {60, 100 - 140}} :
        j.status = COMPLETED => j.results # {}}

\* The handler is in its loop; the job document is one of PollJobs, or gone.
InitPoll ==
    /\ store \in {EmptyDict} \cup {(JOB :> j) : j \in PollJobs}
    /\ containers = EmptyDict
    /\ level = "light" /\ raw_alerts = << >>
    /\ IdleWorker /\ IdleBridge /\ IdleCancel /\ IdleStatus
    /\ d_pc = [p \in Instances |-> "idle"]
    /\ d_running = [p \in Instances |-> 0]
    /\ d_job = [p \in Instances |-> IF p = 1 THEN JOB ELSE 0]
    /\ launch_result = [p \in Instances |->
            IF p = 1
            THEN [kind |-> "ContainerInfo", message |-> NONE,
                  container_id |-> ContainerId(JOB), counted |-> 0]
            ELSE NoResult]
    /\ launched = 0
    /\ o_pc = "poll" /\ o_flow = "mcp" /\ o_exc = NONE
    /\ elapsed \in {0, POLL_INTERVAL_SECONDS}
    /\ o_ret = EmptyDict

NextPoll ==
    \/ OrchPoll
    \/ OrchTimeout

SpecPoll == InitPoll /\ [][NextPoll]_vars

\* ---- stop_worker against a daemon whose workers end and are removed

InitStop ==
    /\ store = EmptyDict
    /\ \E n \in 0..MAX_CONCURRENT_SCANS : containers = OtherWorkers(n)
    /\ level = "light" /\ raw_alerts = << >>
    /\ IdleWorker /\ IdleBridge /\ IdleDispatcher /\ IdleCancel /\ IdleStatus
    /\ o_pc = "request" /\ o_flow = "mcp" /\ o_exc = NONE /\ elapsed = 0
    /\ o_ret = EmptyDict

NextStop ==
    \/ DispatchStop
    \/ OtherWorkerExit
    \/ ContainerReap

SpecStop == InitStop /\ [][NextStop]_vars

\* ---- one orchestrator instance.  launch_worker has no await between its
\* count and its containers.run, so the calls of one event loop come one
\* after the other; the containers themselves run, end and are stopped at
\* any moment.

SingleCall ==
    /\ launched < MaxLaunches
    /\ LaunchCount(1, launched + 2)
    /\ launched' = launched + 1
    /\ UNCHANGED notDispatcher

SingleRun ==
    /\ LaunchRun(1)
    /\ UNCHANGED <<launched, notDispatcher>>

SingleReturn ==
    /\ d_pc[1] = "returned"
    /\ d_pc' = [d_pc EXCEPT ![1] = "idle"]
    /\ UNCHANGED <<containers, d_running, d_job, launch_result, launched, notDispatcher>>

NextSingle ==
    \/ SingleCall
    \/ SingleRun
    \/ SingleReturn
    \/ DispatchStop
    \/ OtherWorkerExit
    \/ ContainerReap

SpecSingle == InitDispatch /\ [][NextSingle]_vars

\* ================================================================= claims

\* C1: once the persisted status of a job is COMPLETED, FAILED or CANCELLED,
\* no later write by any writer (orchestrator, worker, polling timeout,
\* cancel) changes the status.
C1_TerminalStatusIsFinal ==
    [][(JOB \in DOMAIN store /\ store[JOB].status \in TerminalStatus)
        => store'[JOB].status = store[JOB].status]_vars

\* The transitions the lifecycle allows out of a non-terminal status.
AllowedTransitions ==
    {<<QUEUED, DISPATCHED>>, <<DISPATCHED, RUNNING>>, <<RUNNING, COMPLETED>>,
     <<RUNNING, FAILED>>, <<QUEUED, CANCELLED>>, <<DISPATCHED, CANCELLED>>,
     <<RUNNING, CANCELLED>>}

\* C2: every change of the persisted status out of a non-terminal status is
\* QUEUED->DISPATCHED, DISPATCHED->RUNNING, RUNNING->COMPLETED, RUNNING->FAILED
\* or a non-terminal status ->CANCELLED, whichever way the worker's RUNNING
\* write and the orchestrator's DISPATCHED write interleave.  Stated for the
\* jobs whose worker was launched (launch_worker returned a ContainerInfo),
\* which leaves aside the QUEUED->FAILED step of the dispatch-failure path.
C2_TransitionsFollowLifecycle ==
    [][(/\ JOB \in DOMAIN store
        /\ launch_result[1].kind = "ContainerInfo"
        /\ store[JOB].status \notin TerminalStatus
        /\ store'[JOB].status # store[JOB].status)
        => <<store[JOB].status, store'[JOB].status>> \in AllowedTransitions]_vars

\* C3: a launch_worker call whose count of running role-labelled workers is
\* at or above MAX_CONCURRENT_SCANS ends with the capacity DispatchError,
\* starts no process and leaves the set of containers unchanged; the call is
\* over (nothing queued, nothing retried).
C3_CapacityRefusal ==
    [][\A p \in Instances :
        (d_pc[p] = "counted" /\ d_pc'[p] # "counted"
            /\ d_running[p] >= MAX_CONCURRENT_SCANS)
        => /\ containers' = containers
           /\ launch_result'[p].kind = "DispatchError"
           /\ launch_result'[p].message = "Concurrent scan limit reached"
           /\ launch_result'[p].container_id = 0
           /\ d_pc'[p] = "returned"]_vars

\* A launch was refused at the ceiling while three workers were running.
C3_Witness ==
    \E p \in Instances :
        /\ launch_result[p].kind = "DispatchError"
        /\ launch_result[p].counted >= MAX_CONCURRENT_SCANS
        /\ count_running_workers(containers) = MAX_CONCURRENT_SCANS

RoundHalfUp(x2) == (x2 + 1) \div 2

FormulaScore(high, medium, low, informational) ==
    Min(100, Max(0, RoundHalfUp(200 - (high * 20 + medium * 10 + low * 4 + informational))))

\* C5: the score the worker stores is clamp(round(100 - (high*10 + medium*5 +
\* low*2 + informational*0.5)), 0, 100) for every combination of counts,
\* odd informational counts included.
C5_StoredScoreIsFormula ==
    \A r \in store[JOB].results :
        r.score = FormulaScore(r.high, r.medium, r.low, r.informational)

\* C6: a Bridge sync never makes the operation that triggered it fail:
\* sync_to_security_scan returns normally and the status request answers
\* with its own result, whatever fails while syncing.
C6_SyncNeverFailsItsTrigger ==
    /\ ~last_sync.raised
    /\ s_ret.http # 500

\* C7: for a job without company_id or without scan_id the sync resolves no
\* external store client and makes no write to the external store.
C7_NoIdsNoExternalCall ==
    \A job \in last_sync.job :
        (~Truthy(job.company_id) \/ ~Truthy(job.scan_id))
        => /\ last_sync.db_calls = 0
           /\ last_sync.updates = << >>
           /\ ext = NewScanDoc

\* A status request was answered for a job that has a company_id but no
\* scan_id.
C7_Witness ==
    /\ s_ret.http = 200
    /\ \E job \in last_sync.job : job.company_id = "comp-123" /\ job.scan_id = NONE

\* The phase table and the status table as the Bridge's contract gives them.
ContractPhaseTable ==
    ("queued" :> "pending") @@ ("starting" :> "pending") @@ ("crawling" :> "crawling")
    @@ ("scanning" :> "scanning") @@ ("completed" :> "completed") @@ ("failed" :> "failed")

ContractStatusTable ==
    ("queued" :> "pending") @@ ("dispatched" :> "pending") @@ ("running" :> "scanning")
    @@ ("completed" :> "completed") @@ ("failed" :> "failed") @@ ("cancelled" :> "failed")

\* C8: for a job with a non-terminal status the external status written is
\* the phase table's value whenever the phase is a key of that table,
\* whatever the coarse status; only otherwise the status table's value.
C8_PhaseTakesPrecedence ==
    \A job \in last_sync.job :
        (last_sync.updates # << >> /\ job.status \notin TerminalStatus)
        => last_sync.updates[1]["status"] =
              IF job.progress.phase \in DOMAIN ContractPhaseTable
              THEN ContractPhaseTable[job.progress.phase]
              ELSE ContractStatusTable[job.status]

\* A RUNNING job in phase 'crawling' was written as 'crawling'.
C8_Witness ==
    /\ last_sync.updates # << >>
    /\ last_sync.updates[1]["status"] = "crawling"
    /\ \E job \in last_sync.job : job.status = RUNNING /\ job.progress.phase = "crawling"

\* C9: for a job whose status is COMPLETED, FAILED or CANCELLED the external
\* status written is the fixed value of that status, whatever the phase.
C9_TerminalOverride ==
    \A job \in last_sync.job :
        (last_sync.updates # << >> /\ job.status \in TerminalStatus)
        => last_sync.updates[1]["status"] =
              CASE job.status = COMPLETED -> "completed"
                [] job.status = FAILED -> "failed"
                [] job.status = CANCELLED -> "failed"

\* A CANCELLED job with the stale phase 'crawling' was written as 'failed'.
C9_Witness ==
    /\ last_sync.updates # << >>
    /\ last_sync.updates[1]["status"] = "failed"
    /\ \E job \in last_sync.job : job.status = CANCELLED /\ job.progress.phase = "crawling"

\* C10: the external write carries results and alerts only for a COMPLETED
\* job, whatever the record holds, and carries errorMessage exactly when the
\* job has a non-empty error_message.
C10_ResultsOnlyOnCompleted ==
    \A job \in last_sync.job :
        last_sync.updates # << >>
        => LET data == last_sync.updates[1]
           IN  /\ "results" \in DOMAIN data => job.status = COMPLETED
               /\ "alerts" \in DOMAIN data => job.status = COMPLETED
               /\ "errorMessage" \in DOMAIN data <=> Truthy(job.error_message)
               /\ "errorMessage" \in DOMAIN data
                     => data["errorMessage"] = job.error_message

\* A FAILED job that carries results, alerts and an error message was written
\* with the message and without the results and the alerts.
C10_Witness ==
    /\ last_sync.updates # << >>
    /\ DOMAIN last_sync.updates[1] =
          {"status", "spiderProgress", "activeScanProgress", "errorMessage"}
    /\ \E job \in last_sync.job :
          /\ job.status = FAILED
          /\ job.results # {} /\ job.alerts # << >>
          /\ job.error_message = "Container crashed"

\* C11: whenever launch_worker fails, for whatever reason, the caller is
\* given a DispatchError, the job is persisted as FAILED with that error's
\* message (not left QUEUED or DISPATCHED), and no polling takes place.
C11_LaunchFailureFailsJob ==
    [][(/\ o_pc = "launching" /\ d_pc[1] = "returned"
        /\ launch_result[1].kind # "ContainerInfo"
        /\ o_pc' # o_pc)
        => /\ launch_result[1].kind = "DispatchError"
           /\ store'[JOB].status = FAILED
           /\ store'[JOB].error_message = launch_result[1].message
           /\ o_pc' # "poll" /\ elapsed' = 0]_vars

\* A launch ended with the daemon out of reach and the handler is done.
C11_Reached ==
    /\ o_pc = "done"
    /\ launch_result[1].kind = "DockerException"
    /\ store[JOB].status = QUEUED

\* C12: an error that reaches the handler of main() in any phase (engine
\* never ready, crawl or active-scan start or status call failing, results
\* fetch failing) ends the worker in one way: the process exits with code 1,
\* the job carries no results, and the record the handler's write leaves is
\* FAILED with the error's message, phase 'failed' and both percentages 0.
\* The handler's write is the only one that sets phase 'failed', so that
\* phase after the step tells that the store applied the write.
C12_WorkerErrorFailsJob ==
    [][(w_exit = -1 /\ w_exit' = 1)
        => /\ w_pc' = "exited"
           /\ containers'[JOB].status = "exited"
           /\ store'[JOB].results = {}
           /\ store'[JOB].progress.phase = "failed"
                => /\ store'[JOB].status = FAILED
                   /\ store'[JOB].error_message \in {ZapTimeout, EngineError}
                   /\ store'[JOB].progress =
                         JobProgress("failed", 0, 0,
                                     <<"Failed: ", store'[JOB].error_message>>)
                   /\ store'[JOB].completed_at]_vars

\* The engine never became ready: the worker is gone with code 1 and the job
\* is FAILED with the engine's timeout message.
C12_Witness ==
    /\ w_exit = 1 /\ w_pc = "exited"
    /\ store[JOB].status = FAILED
    /\ store[JOB].error_message = ZapTimeout
    /\ store[JOB].progress.phase = "failed"

\* C13: completion is one combined write: a job record whose status is
\* COMPLETED carries its results, the alerts of the engine's findings and
\* the stats, and its progress is phase 'completed' at 100/100, so no read
\* shows COMPLETED without results.
C13_CompletedHasResults ==
    (JOB \in DOMAIN store /\ store[JOB].status = COMPLETED)
    => /\ store[JOB].results = {get_results(raw_alerts).results}
       /\ store[JOB].alerts = get_results(raw_alerts).alerts
       /\ store[JOB].scan_stats \in {{s} : s \in StatsChoices}
       /\ store[JOB].progress.phase = "completed"
       /\ store[JOB].progress.spider_progress = 100
       /\ store[JOB].progress.active_scan_progress = 100
       /\ store[JOB].completed_at

\* A job was completed with findings while its handler was still polling.
C13_Witness ==
    /\ JOB \in DOMAIN store /\ store[JOB].status = COMPLETED
    /\ store[JOB].alerts # << >>
    /\ o_pc = "poll"

\* C15: stop_worker does not raise for a handle whose process is already
\* gone or that the daemon does not know: it returns False for it; for a
\* running container it returns True exactly when the container was asked to
\* stop, and the request carries the 10-second grace period.
C15_StopGoneReturnsFalse ==
    [][stop_ret' # stop_ret
        => LET h == stop_ret'.container_id
               gone == h \notin DOMAIN containers \/ containers[h].status # "running"
           IN  /\ gone => stop_ret'.ret = "False"
               /\ (~gone /\ stop_ret'.ret = "True")
                    => /\ stop_ret'.timeout = 10
                       /\ containers'[h].status = "exited"]_vars

\* C16: cancelling a job read with a non-terminal status asks the Dispatcher
\* to stop the worker first (when the record has a container id) and writes
\* CANCELLED only after stop_worker has returned; cancelling a job read as
\* COMPLETED, FAILED or CANCELLED makes no stop call and no store write and
\* answers with the status it read.
C16_CancelStopsThenWrites ==
    [][/\ (/\ c_pc = "idle" /\ c_pc' # "idle"
           /\ JOB \in DOMAIN store /\ ~get_job_raises(store, JOB))
          => IF store[JOB].status \in TerminalStatus
             THEN /\ c_pc' = "done"
                  /\ c_ret'.http = 200 /\ c_ret'.status = store[JOB].status
                  /\ store' = store /\ containers' = containers
                  /\ stop_ret' = NoStop
             ELSE /\ store' = store
                  /\ c_pc' = IF store[JOB].container_id # 0 THEN "stop" ELSE "write"
       /\ (c_pc = "stop" /\ c_pc' # "stop")
          => /\ store' = store
             /\ stop_ret'.container_id = c_cid
       /\ (/\ JOB \in DOMAIN store
           /\ store[JOB].status # CANCELLED /\ store'[JOB].status = CANCELLED)
          => /\ c_pc = "write"
             /\ c_cid # 0 => /\ stop_ret.container_id = c_cid
                             /\ stop_ret.ret \in {"True", "False"}]_vars

\* A running job was cancelled: its worker was stopped and the record is
\* CANCELLED.
C16_Witness ==
    /\ c_pc = "done" /\ c_ret.status = "cancelled"
    /\ stop_ret.ret = "True" /\ stop_ret.container_id = ContainerId(JOB)
    /\ w_exit = 137
    /\ store[JOB].status = CANCELLED

\* C17: a scan request whose scan level, compared case-insensitively, is
\* none of light, deep, aggressive is rejected with an error before any job
\* is created: no job record is written and no worker launch is attempted.
C17_InvalidLevelRejected ==
    Lower(level) \notin {"light", "deep", "aggressive"}
    => /\ store = EmptyDict
       /\ d_pc[1] = "idle" /\ launch_result[1] = NoResult
       /\ containers \in {OtherWorkers(0), OtherWorkers(MAX_CONCURRENT_SCANS)}
       /\ w_pc = "none"
       /\ o_pc \in {"request", "done"}
       /\ o_pc = "done"
            => DOMAIN o_ret \in {{"error"}, {"http"}}

\* scan_web_application has answered a request for level 'extreme' with its
\* error.
C17_Witness ==
    /\ o_pc = "done" /\ o_flow = "mcp" /\ level = "extreme"
    /\ "error" \in DOMAIN o_ret
    /\ store = EmptyDict

\* C18: every failure value scan_web_application returns (invalid scan
\* level, dispatch failure, job missing while polling, job FAILED or
\* CANCELLED, polling timeout) carries job_id, status and error.
C18_FailuresAreStructured ==
    (o_flow = "mcp" /\ o_pc = "done" /\ "error" \in DOMAIN o_ret)
    => {"job_id", "status", "error"} \subseteq DOMAIN o_ret

\* C14: the polling loop returns on the first read that gives a terminal
\* status or no job: a COMPLETED job gives the formatted results (the summary,
\* the vulnerabilities when there are any, the stats), a FAILED or CANCELLED
\* job the error with the stored error_message, or a default naming the
\* status, together with the job id and that status, a missing job an error;
\* any other read lets the loop go on, and results are never returned for a
\* job whose read status is not COMPLETED.
C14_PollReturnsOnTerminalRead ==
    [][(o_pc = "poll" /\ elapsed' # elapsed /\ ~get_job_raises(store, JOB))
        => /\ get_job(store, JOB) = {}
                => /\ o_pc' = "done"
                   /\ "error" \in DOMAIN o_ret' /\ "summary" \notin DOMAIN o_ret'
           /\ \A j \in get_job(store, JOB) :
                /\ j.status = COMPLETED
                     => /\ o_pc' = "done"
                        /\ "error" \notin DOMAIN o_ret'
                        /\ o_ret'["status"] = "completed" /\ o_ret'["job_id"] = JOB
                        /\ \A r \in j.results :
                              /\ "summary" \in DOMAIN o_ret'
                              /\ o_ret'["summary"] =
                                    [high |-> r.high, medium |-> r.medium, low |-> r.low,
                                     informational |-> r.informational,
                                     security_score |-> r.score]
                        /\ j.alerts # << >>
                              => /\ "vulnerabilities" \in DOMAIN o_ret'
                                 /\ Len(o_ret'["vulnerabilities"]) = Len(j.alerts)
                                 /\ o_ret'["vulnerability_count"] = Len(j.alerts)
                        /\ \A t \in j.scan_stats :
                              /\ "stats" \in DOMAIN o_ret'
                              /\ o_ret'["stats"] = t
                /\ j.status \in {FAILED, CANCELLED}
                     => /\ o_pc' = "done"
                        /\ DOMAIN o_ret' = {"error", "job_id", "status"}
                        /\ o_ret'["error"] = IF j.error_message \in {NONE, ""}
                                             THEN <<"Scan ", j.status>>
                                             ELSE j.error_message
                        /\ o_ret'["job_id"] = JOB /\ o_ret'["status"] = j.status
                /\ j.status \in {QUEUED, DISPATCHED, RUNNING}
                     => o_pc' = "poll" /\ o_ret' = o_ret
                /\ j.status # COMPLETED
                     => DOMAIN o_ret' \cap {"summary", "vulnerabilities", "stats"} = {}]_vars

\* The loop returned the formatted results of a COMPLETED job with findings.
C14_Witness ==
    /\ o_pc = "done"
    /\ JOB \in DOMAIN store /\ store[JOB].status = COMPLETED
    /\ {"summary", "vulnerabilities", "stats"} \subseteq DOMAIN o_ret
    /\ o_ret["summary"].security_score = 90

\* C19: for every remaining-record count r the worker reads in the passive
\* phase, the active_scan_progress it reports for r > 0 is strictly below
\* 100, and once a read gives r = 0 the worker leaves the loop and the
\* progress it reports next is exactly 100.
C19_PassiveBelow100UntilDone ==
    [][/\ (w_pc = "passive_poll" /\ store'[JOB].progress # store[JOB].progress)
          => /\ store'[JOB].progress.message[2] > 0
             /\ store'[JOB].progress.active_scan_progress < 100
             /\ w_pc' = "passive_poll"
       /\ (w_pc = "passive_done" /\ store'[JOB].progress # store[JOB].progress)
          => /\ store'[JOB].progress.active_scan_progress = 100
             /\ store'[JOB].progress.spider_progress = 100]_vars

\* After a read of 3 remaining records reported as 95, the worker reported
\* 100.
C19_Witness ==
    /\ w_pc = "get_results" /\ level = "light" /\ w_last = 95
    /\ store[JOB].progress =
          JobProgress("scanning", 100, 100, <<"Passive analysis complete">>)

\* C20: every spider_progress and active_scan_progress written into a job
\* record lies in 0..100, whatever the engine reads (a remaining-record
\* count above 100 included), so that get_job can read every record the
\* worker writes.
C20_ProgressInRange ==
    JOB \in DOMAIN store
    => /\ store[JOB].progress.spider_progress \in 0..100
       /\ store[JOB].progress.active_scan_progress \in 0..100
       /\ ~get_job_raises(store, JOB)

\* C21: every read of a job by a poller, an iteration of the polling loop of
\* scan_web_application or a call of the status endpoint, is followed by a
\* Bridge sync of the snapshot read before the poller acts on it.
C21_EveryPollReadSyncs ==
    [][/\ (/\ o_pc = "poll" /\ elapsed' # elapsed
           /\ JOB \in DOMAIN store /\ ~get_job_raises(store, JOB))
          => last_sync'.job = {store[JOB]}
       /\ (s_ret' # s_ret /\ s_ret'.http = 200)
          => last_sync'.job = {store[JOB]}]_vars

\* C22: the admission check and the start of the container are two steps.  A
\* launch_worker call that read a count below the ceiling is admitted on the
\* count it read, whatever the number of running workers has become since:
\* it is never refused for capacity, and when the daemon accepts the run the
\* container is added to the running ones.  So two instances that both
\* counted before either started are both admitted, and more than
\* MAX_CONCURRENT_SCANS running workers are reachable.
C22_AdmittedOnStaleCount ==
    [][\A p \in Instances :
        (d_pc[p] = "counted" /\ d_pc'[p] # "counted"
            /\ d_running[p] < MAX_CONCURRENT_SCANS)
        => /\ launch_result'[p].message # CapacityMessage
           /\ launch_result'[p].kind = "ContainerInfo"
                => /\ ContainerId(d_job[p]) \notin DOMAIN containers
                   /\ count_running_workers(containers')
                        = count_running_workers(containers) + 1]_vars

\* Both instances were admitted on a count below the ceiling and more
\* workers than the ceiling are running.
C22_Witness ==
    /\ count_running_workers(containers) > MAX_CONCURRENT_SCANS
    /\ \A p \in Instances :
        /\ launch_result[p].kind = "ContainerInfo"
        /\ launch_result[p].counted < MAX_CONCURRENT_SCANS
        /\ launch_result[p].container_id \in DOMAIN containers
        /\ containers[launch_result[p].container_id].status = "running"

\* The order of the phases a run goes through; 'failed' stands beside it.
PhaseOrder == <<"queued", "starting", "crawling", "scanning", "completed">>

\* ph2 may be written after ph1: the same phase again or a later one of the
\* order, or 'failed' after any phase that is not final.
PhaseFollows(ph1, ph2) ==
    \/ ph1 = ph2
    \/ \E i, j \in DOMAIN PhaseOrder :
            PhaseOrder[i] = ph1 /\ PhaseOrder[j] = ph2 /\ i < j
    \/ ph1 \notin {"completed", "failed"} /\ ph2 = "failed"

\* C23: the progress phase of the job record follows the order starting,
\* crawling, scanning, completed, with 'failed' possible after any of them:
\* no step takes the phase backwards, no step changes the progress once
\* its phase is 'completed' or 'failed', and nothing writes progress once
\* the worker's process has ended.
C23_PhasesInOrder ==
    [][(JOB \in DOMAIN store /\ JOB \in DOMAIN store')
        => /\ PhaseFollows(store[JOB].progress.phase, store'[JOB].progress.phase)
           /\ store[JOB].progress.phase \in {"completed", "failed"}
                => store'[JOB].progress = store[JOB].progress
           /\ w_pc = "exited"
                => w_pc' = "exited" /\ store'[JOB].progress = store[JOB].progress]_vars

\* A run went through to the end and its last write is in the record.
C23_Witness ==
    /\ JOB \in DOMAIN store
    /\ w_pc = "exited" /\ w_exit = 0
    /\ store[JOB].progress.phase = "completed"

\* C24: a run executes one scanning variant, chosen by the scan level.  With
\* level light the worker is only ever in the passive wait and every
\* scanning-phase message it leaves is a passive one; with any other level
\* it is only ever in the active scan and every scanning-phase message is
\* an active one.
C24_OneVariantPerLevel ==
    /\ w_pc \in {"passive_poll", "passive_done", "passive_assumed"} => level = "light"
    /\ w_pc = "active_poll" => level \in {"deep", "aggressive"}
    /\ (JOB \in DOMAIN store /\ store[JOB].progress.phase = "scanning")
        => LET head == store[JOB].progress.message[1]
           IN  IF level = "light"
               THEN head \in {"Passive analysis...", "Passive analysis... ",
                               "Passive analysis complete"}
               ELSE head \in {"Active vulnerability scanning...",
                               "Active scanning... "}

\* A light run is waiting on the passive queue.
C24_Witness ==
    /\ JOB \in DOMAIN store
    /\ w_pc = "passive_poll" /\ level = "light"
    /\ store[JOB].progress.phase = "scanning"
    /\ store[JOB].progress.message[1] = "Passive analysis... "

\* C25: the worker probes the engine at most max_attempts times.  While it
\* waits it has made fewer probes than the budget; a probe that fails with
\* budget left is followed by another probe and writes nothing; the probe
\* that fails as the last of the budget ends the run before any crawl, with
\* exit code 1 and, in the write it makes, status FAILED and the
\* engine-unavailable message; a probe that succeeds ends the probing and
\* the worker goes on to the crawl with nothing written.
C25_ProbeBudget ==
    [][/\ w_pc = "wait_for_zap" => w_probes < max_attempts
       /\ w_pc # "wait_for_zap" => w_probes' = w_probes
       /\ (w_pc = "wait_for_zap" /\ stop_ret' = stop_ret
                /\ <<w_pc, w_probes, w_exit>>' # <<w_pc, w_probes, w_exit>>)
          => \/ /\ w_pc' = "wait_for_zap" /\ w_probes' = w_probes + 1
                /\ w_probes' < max_attempts
                /\ w_exit' = -1 /\ store' = store
             \/ /\ w_pc' = "run_spider" /\ w_exit' = -1 /\ store' = store
             \/ /\ w_pc' = "exited" /\ w_exit' = 1
                /\ w_probes + 1 = max_attempts
                /\ containers'[JOB].status = "exited"
                /\ store'[JOB].progress.spider_progress = 0
                /\ store' = store
                   \/ /\ store'[JOB].status = FAILED
                      /\ store'[JOB].error_message = ZapTimeout
                      /\ store'[JOB].progress.phase = "failed"]_vars

\* The whole budget but one is spent and the worker is still probing.
C25_Witness ==
    /\ w_pc = "wait_for_zap" /\ WorkerAlive
    /\ w_probes = max_attempts - 1

\* C26: the worker stays in the crawl until a reading of at least 100: each
\* step it takes in run_spider's loop writes the reading as spider_progress
\* with active_scan_progress 0 and phase crawling, and it leaves the loop
\* exactly on the step whose reading is 100 or more.  Every progress
\* written from the scanning phase on, the final write of a run that
\* completes included, has spider_progress 100.
C26_CrawlUntil100 ==
    [][/\ (w_pc = "spider_poll" /\ w_exit' = -1)
          => /\ w_pc' \in {"spider_poll", "scan"}
             /\ store'[JOB].progress # store[JOB].progress
                => /\ store'[JOB].progress.phase = "crawling"
                   /\ store'[JOB].progress.active_scan_progress = 0
                   /\ store'[JOB].progress.message =
                        <<"Discovering pages... ",
                          store'[JOB].progress.spider_progress, "%">>
                   /\ w_pc' = "scan" <=> store'[JOB].progress.spider_progress >= 100
       /\ (/\ JOB \in DOMAIN store
           /\ store'[JOB].progress # store[JOB].progress
           /\ store'[JOB].progress.phase \in {"scanning", "completed"})
          => store'[JOB].progress.spider_progress = 100]_vars

\* The crawl was left on a reading of 100, which is in the record.
C26_Witness ==
    /\ w_pc = "scan" /\ WorkerAlive
    /\ store[JOB].progress =
          JobProgress("crawling", 100, 0, <<"Discovering pages... ", 100, "%">>)

\* C27: an engine error while the passive queue is read does not fail the
\* job: no step taken from the passive loop ends the worker with code 1,
\* and from the except branch the worker makes the write that reports the
\* phase complete and goes on to fetch the results.  A worker that ends
\* with code 1 from the crawl loop or the active-scan loop leaves the job
\* FAILED with the engine's error.
C27_PassiveErrorIsNotFatal ==
    [][/\ w_pc \in {"passive_poll", "passive_assumed", "passive_done"} => w_exit' # 1
       /\ (w_pc = "passive_poll" /\ w_pc' # w_pc /\ w_exit' = -1)
          => w_pc' \in {"passive_done", "passive_assumed"} /\ store' = store
       /\ (w_pc = "passive_assumed" /\ w_pc' # w_pc /\ w_exit' = -1)
          => /\ w_pc' = "get_results"
             /\ store'[JOB].progress # store[JOB].progress
                => store'[JOB].progress =
                     JobProgress("scanning", 100, 100, <<"Passive analysis complete">>)
       /\ (w_pc \in {"spider_poll", "active_poll"} /\ w_exit' = 1)
          => /\ w_pc' = "exited"
             /\ store'[JOB].progress # store[JOB].progress
                => /\ store'[JOB].status = FAILED
                   /\ store'[JOB].error_message = EngineError
                   /\ store'[JOB].progress.phase = "failed"]_vars

\* The passive loop was left on the except branch and the worker is alive.
C27_Witness ==
    /\ w_pc = "passive_assumed" /\ WorkerAlive /\ w_exit = -1
    /\ store[JOB].status # FAILED

\* The spellings of a severity word, whatever the case of its letters,
\* among the risks the engine is given.
Spellings(word) ==
    CASE word = "high" -> {"high", "High", "HIGH"}
      [] word = "medium" -> {"medium", "Medium"}
      [] word = "low" -> {"low", "Low"}

\* The findings of the list whose risk is the word, ignoring case.
FindingsAt(raw, word) ==
    {i \in 1..Len(raw) : "risk" \in DOMAIN raw[i] /\ raw[i]["risk"] \in Spellings(word)}

\* C28: for every list of findings, the stored counts are the numbers of
\* findings whose risk is high, medium and low ignoring case, and
\* informational counts every other finding, a missing risk included; the
\* four counts add up to the number of findings, and the stored alerts are
\* the findings in the same number and order.
C28_EachFindingCountedOnce ==
    (w_exit = 0 /\ store[JOB].status = COMPLETED)
    => LET r == CHOOSE x \in store[JOB].results : TRUE
           alerts == store[JOB].alerts
           n == Len(raw_alerts)
       IN  /\ r.high = Cardinality(FindingsAt(raw_alerts, "high"))
           /\ r.medium = Cardinality(FindingsAt(raw_alerts, "medium"))
           /\ r.low = Cardinality(FindingsAt(raw_alerts, "low"))
           /\ r.informational =
                Cardinality((1..n) \ (FindingsAt(raw_alerts, "high")
                                        \cup FindingsAt(raw_alerts, "medium")
                                        \cup FindingsAt(raw_alerts, "low")))
           /\ r.high + r.medium + r.low + r.informational = n
           /\ Len(alerts) = n
           /\ \A i \in 1..n :
                alerts[i].name = IF "alert" \in DOMAIN raw_alerts[i]
                                 THEN raw_alerts[i]["alert"]
                                 ELSE raw_alerts[i]["name"]

\* Three findings, the first HIGH in capitals, the second without a risk,
\* the third with a risk that is no severity, were counted 1 high and 2
\* informational.
C28_Witness ==
    /\ w_exit = 0 /\ store[JOB].status = COMPLETED
    /\ Len(raw_alerts) = 3
    /\ raw_alerts[1] = ("risk" :> "HIGH") @@ ("alert" :> "SQL Injection")
    /\ raw_alerts[2] = ("name" :> "No risk")
    /\ raw_alerts[3] = ("risk" :> "Critical") @@ ("alert" :> "Unknown risk")
    /\ \E r \in store[JOB].results : r.high = 1 /\ r.informational = 2
    /\ Len(store[JOB].alerts) = 3

\* C29: in every state of a job record, under every interleaving of the
\* worker's completion with the polling timeout and with cancel, results
\* are present only if the status is COMPLETED, and results once written
\* are never written again.
C29_ResultsOnlyWhenCompleted ==
    [][(JOB \in DOMAIN store /\ JOB \in DOMAIN store')
        => /\ store'[JOB].results # {} => store'[JOB].status = COMPLETED
           /\ store[JOB].results # {}
                => store'[JOB].results = store[JOB].results]_vars

\* C30: in every state of a job record, under every interleaving of its
\* writers, an error_message is present only if the status is FAILED.
C30_ErrorMessageOnlyWhenFailed ==
    JOB \in DOMAIN store
    => (store[JOB].error_message # NONE => store[JOB].status = FAILED)

\* C31: every write that moves a job to a terminal status sets the completed
\* timestamp, so a job with a terminal status has completed_at set; and the
\* write that sets RUNNING sets started_at.
C31_TerminalHasCompletedAt ==
    [][(JOB \in DOMAIN store /\ JOB \in DOMAIN store')
        => /\ store'[JOB].status \in TerminalStatus => store'[JOB].completed_at
           /\ (store'[JOB].status = RUNNING /\ store[JOB].status # RUNNING)
                => store'[JOB].started_at]_vars

\* C32: every write that sets the status FAILED stores a non-empty
\* error_message; the Job Store does not accept a FAILED write without one.
C32_FailedHasMessage ==
    [][(/\ JOB \in DOMAIN store /\ JOB \in DOMAIN store'
        /\ store'[JOB].status = FAILED /\ store'[JOB] # store[JOB])
        => Truthy(store'[JOB].error_message)]_vars

\* The fields of a job record other than its progress.
FrameOfProgress == (DOMAIN NewJobDoc(JOB, "mcp", "light", NONE, NONE)) \ {"progress"}

\* C33: update_progress(id, p) replaces the whole progress subrecord: after
\* it the stored progress is p, phase, both percentages and message, and
\* every other field of the record is what it was.
C33_ProgressReplacedWhole ==
    [][\A p \in ProgressChoices :
        StoreUpdateProgressWith(p)
        => /\ store'[JOB].progress = p
           /\ DOMAIN store'[JOB] = DOMAIN store[JOB]
           /\ \A f \in FrameOfProgress : store'[JOB][f] = store[JOB][f]]_vars

\* A completed job with results and alerts whose progress was then replaced
\* by one with an empty message.
C33_Witness ==
    /\ store[JOB].status = COMPLETED /\ store[JOB].results # {}
    /\ Len(store[JOB].alerts) = 2
    /\ store[JOB].error_message = "Container crashed"
    /\ store[JOB].container_id = ContainerId(JOB)
    /\ store[JOB].progress = JobProgress("scanning", 100, 40, << >>)

\* C34: when a cancel request that read the job as non-terminal and the
\* worker's own terminal write race, no tie-break applies and the write
\* applied last gives the status: the cancel write leaves CANCELLED whatever
\* the worker has written, and the worker's final write, when the store
\* takes it, leaves COMPLETED whatever cancel has written.
C34_LastWriterWins ==
    [][/\ (c_pc = "write" /\ c_pc' # "write")
          => store'[JOB].status = CANCELLED
       /\ (w_exit = -1 /\ w_exit' = 0 /\ store'[JOB] # store[JOB])
          => store'[JOB].status = COMPLETED /\ store'[JOB].results # {}]_vars

\* Cancel wrote CANCELLED over the COMPLETED record of a worker that
\* finished after the cancel request had read the job.
C34_Witness ==
    /\ c_pc = "sync" /\ w_exit = 0
    /\ store[JOB].status = CANCELLED /\ store[JOB].results # {}
    /\ store[JOB].progress.phase = "completed"

\* The other outcome of the race: the worker, not stopped, wrote COMPLETED
\* over the CANCELLED of a cancel request that has answered.
C34_WorkerWroteLast ==
    /\ c_pc = "done" /\ c_ret.status = "cancelled" /\ w_exit = 0
    /\ store[JOB].status = COMPLETED

\* C35: after a successful dispatch scan_web_application ends within a
\* bounded number of reads, whatever the worker does.  Each read follows one
\* sleep, counted in elapsed as POLL_INTERVAL_SECONDS; a read is only made
\* while elapsed is below MAX_POLL_DURATION_SECONDS, so the reads made,
\* elapsed / POLL_INTERVAL_SECONDS, never exceed the deadline divided by
\* the interval (rounded up); and once elapsed has reached the deadline the
\* only step of the handler is the one that ends it.
C35_PollingIsBounded ==
    [][/\ (o_pc = "poll" /\ <<o_pc, elapsed, o_ret>>' # <<o_pc, elapsed, o_ret>>)
          => /\ elapsed % POLL_INTERVAL_SECONDS = 0
             /\ IF elapsed < MAX_POLL_DURATION_SECONDS
                THEN /\ elapsed' = elapsed + POLL_INTERVAL_SECONDS
                     /\ o_pc' \in {"poll", "done"}
                     /\ store' = store
                ELSE /\ elapsed' = elapsed
                     /\ o_pc' = "done"
       /\ o_pc # "poll" => elapsed' = elapsed
       /\ elapsed' - POLL_INTERVAL_SECONDS < MAX_POLL_DURATION_SECONDS]_vars

\* The handler ended on its deadline for a job whose worker was launched
\* and is still alive, and never got a write into the record.
C35_Witness ==
    /\ o_pc = "done" /\ o_flow = "mcp"
    /\ o_ret = ("error" :> TimeoutMessage) @@ ("job_id" :> JOB) @@ ("status" :> "failed")
    /\ elapsed >= MAX_POLL_DURATION_SECONDS
    /\ WorkerAlive
    /\ store[JOB].progress = DefaultProgress

\* The job has both the tenant id and the external-record id and a terminal
\* status.
TerminalLinkedJob ==
    /\ JOB \in DOMAIN store
    /\ Truthy(store[JOB].company_id) /\ Truthy(store[JOB].scan_id)
    /\ store[JOB].status \in TerminalStatus

\* C36: for a job with both ids that has reached a terminal status, when
\* status reads keep being made and the external writes do not fail for
\* ever, the external record eventually holds the external status mapped
\* from that terminal status, however many earlier syncs failed.
C36_SyncEventuallyDelivers ==
    TerminalLinkedJob ~> (ext.status = STATUS_MAP[store[JOB].status])

\* The external record of a cancelled job holds 'failed' after a status
\* request that answered.
C36_Witness ==
    /\ TerminalLinkedJob /\ store[JOB].status = CANCELLED
    /\ store[JOB].progress.phase = "crawling"
    /\ s_ret.http = 200
    /\ ext.status = "failed"

\* The running containers that launch_worker started.
RunningLaunched(cs) ==
    {c \in DOMAIN cs : cs[c].job_id # 0 /\ cs[c].status = "running"}

\* C37: with a single orchestrator instance, after any sequence of
\* launches, worker exits and stops, the workers launch_worker started and
\* that are running are all counted by the admission check and are never
\* more than MAX_CONCURRENT_SCANS.
C37_SingleInstanceCeiling ==
    /\ Cardinality(RunningLaunched(containers)) = count_running_workers(containers)
    /\ Cardinality(RunningLaunched(containers)) <= MAX_CONCURRENT_SCANS

\* The ceiling is reached again after a worker ended: a launch was refused
\* at the ceiling, and one more launch was admitted since.
C37_Witness ==
    /\ count_running_workers(containers) = MAX_CONCURRENT_SCANS
    /\ launched = MaxLaunches
    /\ launch_result[1].kind = "ContainerInfo"
    /\ launch_result[1].counted = MAX_CONCURRENT_SCANS - 1
    /\ \E c \in DOMAIN containers : containers[c].status = "exited"

\* C38: whenever the worker's process exits with code 0 the job record has
\* received its COMPLETED write, status COMPLETED with results and progress
\* 100/100, also when writes to the Job Store can fail; and whenever it
\* exits with code 1 the record has received its FAILED write.
C38_ExitMeansWritten ==
    [][/\ (w_exit = -1 /\ w_exit' = 0)
          => /\ store'[JOB].status = COMPLETED
             /\ store'[JOB].results # {}
             /\ store'[JOB].progress.spider_progress = 100
             /\ store'[JOB].progress.active_scan_progress = 100
       /\ (w_exit = -1 /\ w_exit' = 1)
          => /\ store'[JOB].status = FAILED
             /\ Truthy(store'[JOB].error_message)]_vars

\* C39: the polling-timeout path makes one store write, status FAILED with
\* the timeout message (and the completed timestamp update_status adds),
\* and no Dispatcher call: the containers, the worker's position and the
\* count an admission check would read are what they were, so a worker
\* that is alive stays alive.
C39_TimeoutLeavesWorker ==
    [][(o_pc = "poll" /\ o_pc' = "done" /\ ~(elapsed < MAX_POLL_DURATION_SECONDS))
        => /\ store'[JOB] = Update(store[JOB],
                    ("status" :> FAILED) @@ ("error_message" :> TimeoutMessage)
                    @@ ("completed_at" :> TRUE))
           /\ containers' = containers
           /\ count_running_workers(containers') = count_running_workers(containers)
           /\ WorkerAlive => WorkerAlive'
           /\ <<w_pc, w_exit, stop_ret, launch_result, d_pc>>'
                = <<w_pc, w_exit, stop_ret, launch_result, d_pc>>]_vars

\* After the handler timed out and wrote FAILED, the worker, still running
\* and counted, wrote its crawl into the record and set it back to running.
C39_Witness ==
    /\ o_pc = "done" /\ o_ret = ("error" :> TimeoutMessage) @@ ("job_id" :> JOB)
                                  @@ ("status" :> "failed")
    /\ WorkerAlive /\ w_pc = "spider_poll"
    /\ count_running_workers(containers) >= 1
    /\ store[JOB].error_message = TimeoutMessage
    /\ store[JOB].status = RUNNING
    /\ store[JOB].progress.phase = "crawling"

\* C40: every worker run that starts eventually writes a terminal status
\* and exits, provided each polling loop's status call in the end raises or
\* reports completion: from the start of main() the run leads to a state
\* where the process has ended with code 0 or 1 and the job's record holds
\* COMPLETED or FAILED.
C40_WorkerTerminates ==
    (w_pc = "main" /\ WorkerAlive)
        ~> (/\ w_pc = "exited" /\ w_exit \in {0, 1}
            /\ store[JOB].status \in {COMPLETED, FAILED})

\* The part of C40 about the process alone: it ends with code 0 or 1.
C40_WorkerExits ==
    (w_pc = "main" /\ WorkerAlive) ~> (w_pc = "exited" /\ w_exit \in {0, 1})

\* The worker scheduled, with nothing said about what the engine reports.
SpecWorkerScheduled == InitWorker /\ [][NextWorker]_vars /\ WF_vars(WorkerStep)

====
